---- MODULE Spec2Model ----
(***************************************************************************)
(* Model of the x402 discovery sync engine (src/fetch_discovery.py):       *)
(* the paginated facilitator client, the testnet/hosting filter, the       *)
(* deduplicator and the origin/resource/accept upsert.                     *)
(*                                                                         *)
(* Strings are sequences of one-character strings, so that lower(),        *)
(* substring search, suffix tests, urlparse and int() are computed the way *)
(* the program computes them.                                              *)
(***************************************************************************)
EXTENDS Integers, Sequences, FiniteSets, TLC

\* ------------------------------------------------------------------ bounds
\* page size passed to fetch_with_pagination (the program's default is 100)
Limit == 2
\* requests of one page after which the model stops following a fetch
MaxAttempts == 4
\* longest input list handed to deduplicate_resources
MaxItems == 3
\* runs of main() and of backfill_tags.py that are followed
MaxRuns == 2
\* store and provider calls that fail in one behaviour
MaxFailures == 1

\* ------------------------------------------------------- program constants
\* fetch_with_pagination(..., max_retries: int = 3)
max_retries == 3
\* amount / 1_000_000: USDC has 6 decimals
USDC_UNIT == 1000000

\* --------------------------------------------------------------- strings
UpperChars == <<"A","B","C","D","E","F","G","H","I","J","K","L","M","N","O","P","Q","R","S","T","U","V","W","X","Y","Z">>

LowerChars == <<"a","b","c","d","e","f","g","h","i","j","k","l","m","n","o","p","q","r","s","t","u","v","w","x","y","z">>

\* the characters the model's strings use, in code point order
CharOrder == <<" ","#","-",".","/","0","1","2","3","4","5","6","7","8","9",":","?">> \o UpperChars \o <<"_">> \o LowerChars

Digits == <<"0","1","2","3","4","5","6","7","8","9">>

\* the code point order of the characters
OrdTable == [c \in {CharOrder[i] : i \in 1..Len(CharOrder)} |->
                CHOOSE i \in 1..Len(CharOrder) : CharOrder[i] = c]

Ord(c) == OrdTable[c]

LowerTable == [c \in {UpperChars[i] : i \in 1..26} |->
                  LowerChars[CHOOSE i \in 1..26 : UpperChars[i] = c]]

LowerChar(c) == IF c \in DOMAIN LowerTable THEN LowerTable[c] ELSE c

RECURSIVE LowerFrom(_, _)
LowerFrom(s, i) == IF i > Len(s) THEN <<>> ELSE <<LowerChar(s[i])>> \o LowerFrom(s, i + 1)

\* str.lower()
Lower(s) == LowerFrom(s, 1)

\* `sub in s`
Contains(s, sub) ==
    LET n == Len(s)
        m == Len(sub)
    IN  \E i \in 0..(n - m) : \A k \in 1..m : s[i + k] = sub[k]

\* s.endswith(suf)
EndsWith(s, suf) == /\ Len(s) >= Len(suf)
                    /\ SubSeq(s, Len(s) - Len(suf) + 1, Len(s)) = suf

\* s.startswith(pre)
StartsWith(s, pre) == /\ Len(s) >= Len(pre)
                      /\ SubSeq(s, 1, Len(pre)) = pre

\* a > b on Python strings: lexicographic on code points, a proper prefix is smaller
StrGreater(a, b) ==
    LET n == IF Len(a) < Len(b) THEN Len(a) ELSE Len(b)
        diff == {i \in 1..n : a[i] # b[i]}
    IN  IF diff = {}
        THEN Len(a) > Len(b)
        ELSE LET d == CHOOSE i \in diff : \A j \in diff : i <= j
             IN  Ord(a[d]) > Ord(b[d])

\* the least index >= from of a character of `chars`, Len(s) + 1 if there is none
FirstOf(s, chars, from) ==
    LET hits == {i \in from..Len(s) : s[i] \in chars}
    IN  IF hits = {} THEN Len(s) + 1 ELSE CHOOSE i \in hits : \A j \in hits : i <= j

\* ------------------------------------------------------------ configuration
TESTNET_PATTERNS == {
    <<"-","s","e","p","o","l","i","a">>,
    <<"-","t","e","s","t","n","e","t">>,
    <<"g","o","e","r","l","i">>,
    <<"m","u","m","b","a","i">>,
    <<"h","o","l","e","s","k","y">>,
    <<"-","d","e","v","n","e","t">>,
    <<"s","e","p","o","l","i","a">>,
    <<"t","e","s","t","n","e","t">> }

HOSTING_DOMAINS == {
    <<".","v","e","r","c","e","l",".","a","p","p">>,
    <<".","n","e","t","l","i","f","y",".","a","p","p">>,
    <<".","r","e","n","d","e","r",".","c","o","m">>,
    <<".","o","n","r","e","n","d","e","r",".","c","o","m">>,
    <<".","h","e","r","o","k","u","a","p","p",".","c","o","m">>,
    <<".","r","a","i","l","w","a","y",".","a","p","p">>,
    <<".","f","l","y",".","d","e","v">>,
    <<".","r","e","p","l","i","t",".","d","e","v">>,
    <<".","g","l","i","t","c","h",".","m","e">>,
    <<".","s","u","r","g","e",".","s","h">>,
    <<".","p","a","g","e","s",".","d","e","v">>,
    <<".","w","o","r","k","e","r","s",".","d","e","v">>,
    <<".","n","x",".","l","i","n","k">>,
    <<"l","o","c","a","l","h","o","s","t">> }

\* the category -> keywords table, in the order of the dict
TAG_KEYWORDS == <<
    [name |-> "ai_agent", keywords |-> {
        <<"a","g","e","n","t">>,
        <<"s","w","a","r","m">>,
        <<"a","u","t","o","n","o","m","o","u","s">>,
        <<"w","o","r","k","f","l","o","w">>,
        <<"a","s","s","i","s","t","a","n","t">>,
        <<"b","o","t">>,
        <<"e","l","i","z","a">>,
        <<"v","i","r","t","u","a","l","s">>,
        <<"d","a","y","d","r","e","a","m","s">>,
        <<"a","i","-","a","g","e","n","t">>,
        <<"a","i","a","g","e","n","t">> }],
    [name |-> "llm_inference", keywords |-> {
        <<"l","l","m">>,
        <<"g","p","t">>,
        <<"c","l","a","u","d","e">>,
        <<"g","e","m","i","n","i">>,
        <<"i","n","f","e","r","e","n","c","e">>,
        <<"c","o","m","p","l","e","t","i","o","n">>,
        <<"c","h","a","t">>,
        <<"o","p","e","n","a","i">>,
        <<"a","n","t","h","r","o","p","i","c">>,
        <<"m","i","s","t","r","a","l">>,
        <<"l","l","a","m","a">>,
        <<"g","e","n","e","r","a","t","e">> }],
    [name |-> "blockchain_data", keywords |-> {
        <<"o","n","c","h","a","i","n">>,
        <<"o","n","-","c","h","a","i","n">>,
        <<"t","o","k","e","n","-","i","n","f","o">>,
        <<"d","e","x","-","d","a","t","a">>,
        <<"c","h","a","i","n","-","d","a","t","a">>,
        <<"b","l","o","c","k","c","h","a","i","n">>,
        <<"t","r","a","n","s","a","c","t","i","o","n">>,
        <<"b","l","o","c","k">>,
        <<"a","d","d","r","e","s","s">>,
        <<"b","a","l","a","n","c","e">> }],
    [name |-> "trading", keywords |-> {
        <<"t","r","a","d","e">>,
        <<"t","r","a","d","i","n","g">>,
        <<"s","w","a","p">>,
        <<"d","e","x">>,
        <<"e","x","c","h","a","n","g","e">>,
        <<"m","a","r","k","e","t">>,
        <<"p","r","i","c","e">>,
        <<"o","r","d","e","r">>,
        <<"q","u","o","t","e">>,
        <<"l","i","q","u","i","d","i","t","y">> }],
    [name |-> "nft", keywords |-> {
        <<"n","f","t">>,
        <<"c","o","l","l","e","c","t","i","b","l","e">>,
        <<"m","i","n","t">>,
        <<"m","e","t","a","d","a","t","a">>,
        <<"o","p","e","n","s","e","a">>,
        <<"c","o","l","l","e","c","t","i","o","n">> }],
    [name |-> "payment", keywords |-> {
        <<"p","a","y","m","e","n","t">>,
        <<"p","a","y">>,
        <<"t","r","a","n","s","f","e","r">>,
        <<"u","s","d","c">>,
        <<"s","e","n","d">>,
        <<"r","e","c","e","i","v","e">>,
        <<"w","a","l","l","e","t">> }],
    [name |-> "social_media", keywords |-> {
        <<"t","w","i","t","t","e","r">>,
        <<"s","o","c","i","a","l">>,
        <<"t","w","e","e","t">>,
        <<"p","o","s","t">>,
        <<"f","a","r","c","a","s","t","e","r">>,
        <<"l","e","n","s">>,
        <<"x",".","c","o","m">>,
        <<"a","n","a","l","y","t","i","c","s">>,
        <<"f","o","l","l","o","w","e","r">> }],
    [name |-> "developer_tools", keywords |-> {
        <<"s","d","k">>,
        <<"a","p","i">>,
        <<"d","e","v","e","l","o","p","e","r">>,
        <<"t","o","o","l">>,
        <<"u","t","i","l","i","t","y">>,
        <<"w","e","b","h","o","o","k">>,
        <<"r","p","c">>,
        <<"e","n","d","p","o","i","n","t">>,
        <<"i","n","t","e","g","r","a","t","i","o","n">> }],
    [name |-> "content", keywords |-> {
        <<"m","e","d","i","a">>,
        <<"i","m","a","g","e">>,
        <<"v","i","d","e","o">>,
        <<"a","r","t","i","c","l","e">>,
        <<"c","o","n","t","e","n","t">>,
        <<"g","e","n","e","r","a","t","e","-","i","m","a","g","e">>,
        <<"t","e","x","t","-","t","o">>,
        <<"i","m","a","g","e","-","t","o">> }],
    [name |-> "security", keywords |-> {
        <<"s","e","c","u","r","i","t","y">>,
        <<"r","i","s","k">>,
        <<"c","o","m","p","l","i","a","n","c","e">>,
        <<"a","u","d","i","t">>,
        <<"v","e","r","i","f","y">>,
        <<"k","y","c">>,
        <<"a","m","l">> }] >>

\* the facilitators fetched, in the order of the FACILITATORS table
Facilitators == <<"cdp_coinbase", "payai">>

\* ------------------------------------------------------------- the filter
\* is_testnet: the empty name is no testnet, else any pattern in the lowered name
is_testnet(network) ==
    IF network = <<>>
    THEN FALSE
    ELSE LET network_lower == Lower(network)
         IN  \E pattern \in TESTNET_PATTERNS : Contains(network_lower, pattern)

\* is_hosting_domain: the empty domain counts as hosting, else any entry
\* contained in the lowered domain
is_hosting_domain(domain) ==
    IF domain = <<>>
    THEN TRUE
    ELSE LET domain_lower == Lower(domain)
         IN  \E host \in HOSTING_DOMAINS : Contains(domain_lower, host)

filter_accepts_keep_all(accepts) == accepts

\* filter_accepts: the accepts whose network is no testnet, in order
filter_accepts(accepts) == SelectSeq(accepts, LAMBDA a : ~is_testnet(a.network))

\* urlparse(url): scheme, netloc and path of an absolute or relative URL
urlparse(url) ==
    LET colon == FirstOf(url, {":"}, 1)
        stop == FirstOf(url, {"/", "?", "#"}, 1)
        hasScheme == colon <= Len(url) /\ colon < stop /\ colon > 1
        scheme == IF hasScheme THEN Lower(SubSeq(url, 1, colon - 1)) ELSE <<>>
        rest == IF hasScheme THEN SubSeq(url, colon + 1, Len(url)) ELSE url
        hasNetloc == StartsWith(rest, <<"/","/">>)
        nend == IF hasNetloc THEN FirstOf(rest, {"/", "?", "#"}, 3) ELSE 1
        netloc == IF hasNetloc THEN SubSeq(rest, 3, nend - 1) ELSE <<>>
        tail == IF hasNetloc THEN SubSeq(rest, nend, Len(rest)) ELSE rest
        pend == FirstOf(tail, {"?", "#"}, 1)
    IN  [scheme |-> scheme, netloc |-> netloc, path |-> SubSeq(tail, 1, pend - 1)]

\* ----------------------------------------------------------- deduplication
\* the position of resource_url among the keys of `seen`, 0 if it is no key
SeenIndex(seen, resource_url) ==
    IF \E j \in 1..Len(seen) : seen[j].resource = resource_url
    THEN CHOOSE j \in 1..Len(seen) : seen[j].resource = resource_url
    ELSE 0

RECURSIVE DedupeLoopLast(_, _, _)
DedupeLoopLast(all_items, i, seen) ==
    IF i > Len(all_items)
    THEN seen
    ELSE LET item == all_items[i]
             j == SeenIndex(seen, item.resource)
         IN  IF item.resource = <<>>
             THEN DedupeLoopLast(all_items, i + 1, seen)
             ELSE IF j = 0
                  THEN DedupeLoopLast(all_items, i + 1, Append(seen, item))
                  ELSE DedupeLoopLast(all_items, i + 1, [seen EXCEPT ![j] = item])

\* the loop of deduplicate_resources over all_items[i..]; `seen` is the dict,
\* a sequence in insertion order (a replaced value keeps its key's position)
RECURSIVE DedupeLoop(_, _, _)
DedupeLoop(all_items, i, seen) ==
    IF i > Len(all_items)
    THEN seen
    ELSE LET item == all_items[i]
             j == SeenIndex(seen, item.resource)
         IN  IF item.resource = <<>>
             THEN DedupeLoop(all_items, i + 1, seen)
             ELSE IF j = 0
                  THEN DedupeLoop(all_items, i + 1, Append(seen, item))
                  ELSE IF StrGreater(item.lastUpdated, seen[j].lastUpdated)
                       THEN DedupeLoop(all_items, i + 1, [seen EXCEPT ![j] = item])
                       ELSE DedupeLoop(all_items, i + 1, seen)

\* a listing whose `lastUpdated` is JSON null: item.get('lastUpdated', '') is None
NullDate == <<"?">>

\* `new_date > existing_date` raises TypeError: a listing whose URL is in
\* `seen` is compared and one of the two dates is None
DedupeRaises(all_items) ==
    \E i \in 1..Len(all_items) :
        LET item == all_items[i]
            seen == DedupeLoop(SubSeq(all_items, 1, i - 1), 1, <<>>)
            j == SeenIndex(seen, item.resource)
        IN  /\ item.resource # <<>>
            /\ j # 0
            /\ NullDate \in {item.lastUpdated, seen[j].lastUpdated}

deduplicate_resources_keep_all(all_items) == all_items

deduplicate_resources(all_items) == DedupeLoop(all_items, 1, <<>>)

\* ------------------------------------------------------- binary64 floats
\* A Python float that is zero or positive: `zero`, or the 53 binary digits m
\* of its significand, most significant (a 1) first, and the exponent e of
\* that first digit: the value is the sum of m[i] * 2^(e - i + 1).
FloatZero == [zero |-> TRUE, m |-> <<>>, e |-> 0]

\* the number of binary digits of a natural number below 2^31
BitLength(n) == CHOOSE L \in 0..31 : n < 2^L /\ (L = 0 \/ n >= 2^(L - 1))

\* the `width` low binary digits of n, most significant first
LowBits(n, width) == [i \in 1..width |-> (n \div 2^(width - i)) % 2]

\* the binary digits of a natural number, most significant first
IntBits(n) == <<>> \o LowBits(n, BitLength(n))

\* the binary digits of the fraction r/d (r < d <= 1000000) in groups of 9:
\* `groups` groups and the remainder left after them
RECURSIVE FracGroups(_, _, _)
FracGroups(r, d, groups) ==
    IF groups = 0
    THEN [bits |-> <<>>, rem |-> r]
    ELSE LET rest == FracGroups((512 * r) % d, d, groups - 1)
         IN  [bits |-> LowBits((512 * r) \div d, 9) \o rest.bits, rem |-> rest.rem]

\* the first `count` binary digits of the fraction r/d, and whether anything
\* is left after them
FracBits(r, d, count) ==
    LET groups == (count + 8) \div 9
        f == FracGroups(r, d, groups)
    IN  [bits |-> SubSeq(f.bits, 1, count),
         sticky |-> f.rem # 0 \/ \E i \in (count + 1)..(9 * groups) : f.bits[i] = 1]

\* the zero digits the fraction r/d (0 < r < d) starts with
RECURSIVE LeadingZeros(_, _)
LeadingZeros(r, d) == IF 2 * r >= d THEN 0 ELSE 1 + LeadingZeros(2 * r, d)

\* a digit string plus one, and the carry out of its first digit
Increment(bits) ==
    LET zeros == {i \in 1..Len(bits) : bits[i] = 0}
    IN  IF zeros = {}
        THEN [bits |-> [i \in 1..Len(bits) |-> 0], carry |-> 1]
        ELSE LET last_zero == CHOOSE i \in zeros : \A j \in zeros : j <= i
             IN  [bits |-> [i \in 1..Len(bits) |->
                               IF i < last_zero THEN bits[i] ELSE IF i = last_zero THEN 1 ELSE 0],
                  carry |-> 0]

\* round to nearest, ties to even: digits are the first 54 digits of the
\* exact value from its leading 1 (of exponent e) on, sticky says whether a
\* later digit is 1
RoundNearestEven(digits, sticky, e) ==
    LET m == SubSeq(digits, 1, 53)
        up == digits[54] = 1 /\ (sticky \/ m[53] = 1)
        inc == Increment(m)
    IN  IF ~up
        THEN [zero |-> FALSE, m |-> m, e |-> e]
        ELSE IF inc.carry = 1
             THEN [zero |-> FALSE, m |-> <<1>> \o SubSeq(<<>> \o inc.bits, 1, 52), e |-> e + 1]
             ELSE [zero |-> FALSE, m |-> <<>> \o inc.bits, e |-> e]

\* the float nearest to n/d (n >= 0, 0 < d <= 1000000): a decimal literal, a
\* JSON number or the true division of two ints
FloatOf(n, d) ==
    IF n = 0
    THEN FloatZero
    ELSE LET ip == IntBits(n \div d)
             r0 == n % d
         IN  IF ip # <<>>
             THEN LET f == FracBits(r0, d, 54 - Len(ip))
                  IN  RoundNearestEven(ip \o f.bits, f.sticky, Len(ip) - 1)
             ELSE LET z == LeadingZeros(r0, d)
                      f == FracBits(r0 * 2^z, d, 54)
                  IN  RoundNearestEven(f.bits, f.sticky, 0 - (z + 1))

\* a 53-digit significand as 6 limbs of 9 digits, least significant limb first
Limbs(m) ==
    LET padded == <<0>> \o m
        limb(g) == LET at(j) == padded[9 * (g - 1) + j]
                   IN  256 * at(1) + 128 * at(2) + 64 * at(3) + 32 * at(4) + 16 * at(5)
                       + 8 * at(6) + 4 * at(7) + 2 * at(8) + at(9)
    IN  <<limb(6), limb(5), limb(4), limb(3), limb(2), limb(1)>>

\* the sum of the limb products of weight 512^(k-1)
Column(al, bl, k) ==
    LET term(i) == IF k + 1 - i \in 1..6 THEN al[i] * bl[k + 1 - i] ELSE 0
    IN  term(1) + term(2) + term(3) + term(4) + term(5) + term(6)

\* the limbs of weight 512^(k-1) .. 512^11 of the product, least significant first
RECURSIVE ProductLimbs(_, _, _, _)
ProductLimbs(al, bl, k, carry) ==
    IF k > 12
    THEN <<>>
    ELSE LET total == Column(al, bl, k) + carry
         IN  <<total % 512>> \o ProductLimbs(al, bl, k + 1, total \div 512)

\* x * y: the exact product, 105 or 106 digits, rounded to nearest, ties to even
FloatMul(x, y) ==
    IF x.zero \/ y.zero
    THEN FloatZero
    ELSE LET limbs == ProductLimbs(Limbs(x.m), Limbs(y.m), 1, 0)
             \* the 108 digits of the product, most significant first
             all == <<>> \o [i \in 1..108 |->
                        (limbs[12 - ((i - 1) \div 9)] \div 2^(8 - ((i - 1) % 9))) % 2]
             wide == all[3] = 1
             first == IF wide THEN 3 ELSE 4
             sticky == \E i \in (first + 54)..108 : all[i] = 1
         IN  RoundNearestEven(SubSeq(all, first, first + 53), sticky,
                              x.e + y.e + (IF wide THEN 1 ELSE 0))

\* x <= y
FloatLeq(x, y) ==
    IF x.zero THEN TRUE
    ELSE IF y.zero THEN FALSE
    ELSE IF x.e # y.e THEN x.e < y.e
    ELSE LET diff == {i \in 1..53 : x.m[i] # y.m[i]}
         IN  IF diff = {}
             THEN TRUE
             ELSE LET d == CHOOSE i \in diff : \A j \in diff : i <= j
                  IN  x.m[d] < y.m[d]

\* --------------------------------------------------------- price matching
\* the literals 0.9 and 1.1
Float_0_9 == FloatOf(9, 10)

Float_1_1 == FloatOf(11, 10)

\* a USD value given in millionths, as the float of its decimal
Usd(micros) == FloatOf(micros, USDC_UNIT)

\* is_valid_x402_transfer: some price > 0 with price * 0.9 <= amount <= price * 1.1
is_valid_x402_transfer(amount, expected_prices) ==
    \E i \in 1..Len(expected_prices) :
        /\ ~FloatLeq(expected_prices[i], FloatZero)
        /\ FloatLeq(FloatMul(expected_prices[i], Float_0_9), amount)
        /\ FloatLeq(amount, FloatMul(expected_prices[i], Float_1_1))

\* ------------------------------------------------------------ auto-tagging
\* the loop over TAG_KEYWORDS.items() from entry i on: the categories with a
\* keyword in text, in the order of the table
RECURSIVE MatchFrom(_, _)
MatchFrom(text, i) ==
    IF i > Len(TAG_KEYWORDS)
    THEN <<>>
    ELSE IF \E kw \in TAG_KEYWORDS[i].keywords : Contains(text, kw)
         THEN <<TAG_KEYWORDS[i].name>> \o MatchFrom(text, i + 1)
         ELSE MatchFrom(text, i + 1)

\* text = f"{resource_url} {description}".lower()
TagText(resource_url, description) == Lower(resource_url \o <<" ">> \o description)

detect_tags_no_default(resource_url, description) ==
    MatchFrom(TagText(resource_url, description), 1)

\* detect_tags: the matching categories, ['other'] when there is none
detect_tags(resource_url, description) ==
    LET tags == MatchFrom(TagText(resource_url, description), 1)
    IN  IF tags = <<>> THEN <<"other">> ELSE tags

\* ------------------------------------------------------ response formats
\* A decoded response body: kind "list" (a plain array in `list`), "dict" or
\* "other".  A dict field is [present, val]; `data` is [present, isdict, items].
Field(present, val) == [present |-> present, val |-> val]

NoField == Field(FALSE, <<>>)

NoData == [present |-> FALSE, isdict |-> FALSE, items |-> NoField]

ListBody(seq) == [kind |-> "list", list |-> seq, items |-> NoField, resources |-> NoField, data |-> NoData]

DictBody(items, resources, data) == [kind |-> "dict", list |-> <<>>, items |-> items, resources |-> resources, data |-> data]

OtherBody == [kind |-> "other", list |-> <<>>, items |-> NoField, resources |-> NoField, data |-> NoData]

\* the `items` fetch_with_pagination takes from a decoded body
ExtractItems(data) ==
    IF data.kind = "list"
    THEN data.list
    ELSE IF data.kind = "dict"
         THEN LET items == IF data.items.present
                           THEN data.items.val
                           ELSE IF data.resources.present THEN data.resources.val ELSE <<>>
              IN  IF items = <<>> /\ data.data.present /\ data.data.isdict
                  THEN IF data.data.items.present THEN data.data.items.val ELSE <<>>
                  ELSE items
         ELSE <<>>

\* ------------------------------------------------------------ listings
Str_https == <<"h","t","t","p","s">>

Str_http == <<"h","t","t","p">>

Str_sep == <<":","/","/">>

Host_svc == <<"s","v","c",".","e","x","a","m","p","l","e">>

Host_vercel == <<"f","o","o",".","v","e","r","c","e","l",".","a","p","p">>

Host_mid == <<"a","p","p",".","v","e","r","c","e","l",".","a","p","p",".","e","x","a","m","p","l","e",".","c","o","m">>

Path_run == <<"/","a","p","i","/","r","u","n">>

Path_v1 == <<"/","v","1">>

URL_run == Str_https \o Str_sep \o Host_svc \o Path_run

URL_v1 == Str_http \o Str_sep \o Host_svc \o Path_v1

URL_hosted == Str_https \o Str_sep \o Host_vercel \o Path_v1

Host_sub == <<"a","p","i",".">> \o Host_svc

URL_sub == Str_https \o Str_sep \o Host_sub \o Path_v1

Date1 == <<"2","0","2","4","-","0","1","-","0","1">>

Date2 == <<"2","0","2","4","-","0","1","-","0","2">>

Net_base == <<"b","a","s","e">>

Net_solana == <<"s","o","l","a","n","a">>

Net_polygon == <<"p","o","l","y","g","o","n">>

Net_base_sepolia == <<"b","a","s","e","-","s","e","p","o","l","i","a">>

Net_Base_Sepolia == <<"B","a","s","e","-","S","e","p","o","l","i","a">>

Net_SOLANA_DEVNET == <<"S","O","L","A","N","A","-","D","E","V","N","E","T">>

Net_mumbai == <<"m","u","m","b","a","i">>

Amt_1000000 == <<"1","0","0","0","0","0","0">>

Amt_1500000 == <<"1","5","0","0","0","0","0">>

Amt_abc == <<"a","b","c">>

Desc_a == <<"T","o","k","e","n"," ","s","w","a","p">>

Desc_b == <<"r","u","n","n","e","r">>

\* an entry of a listing's `accepts`
Accept(network, maxAmountRequired) ==
    [scheme |-> "exact", network |-> network, maxAmountRequired |-> maxAmountRequired]

\* a raw listing: a JSON object (wellformed) with `resource`, `lastUpdated`,
\* `metadata.description` and `accepts` (a field: the key may be missing)
Listing(resource, lastUpdated, description, accepts) ==
    [wellformed |-> TRUE, resource |-> resource, lastUpdated |-> lastUpdated,
     description |-> description, accepts |-> accepts]

\* an element of a page that is no JSON object
Malformed ==
    [wellformed |-> FALSE, resource |-> <<>>, lastUpdated |-> <<>>,
     description |-> <<>>, accepts |-> NoField]

\* --------------------------------------------------------------- state
VARIABLES
    \* a call of a pure function and its result
    call, ret,
    \* fetch_all_discovery / fetch_with_pagination
    catalog,      \* per facilitator, the raw listings its endpoint serves
    fac,          \* index of the facilitator being fetched
    fpc,          \* "request": in the retry loop, "returned", "done", "idle"
    offset, retry,
    all_items,    \* fetch_with_pagination's all_items
    combined,     \* fetch_all_discovery's all_items
    attempts,     \* requests sent so far for the page at `offset`
    last,         \* the last response of the facilitator being fetched
    upto,         \* per facilitator, raw listings of its completely processed pages
    \* the store and the runs of main() that write to it
    origins,      \* rows of table origins, a row's id is its position
    resources,    \* rows of table resources
    accepts,      \* rows of table accepts
    run,          \* per run of main(), its locals
    started,      \* runs of main() and of backfill_tags.py started so far
    failures,     \* store and provider calls that failed so far
    resource_tags,\* rows of table resource_tags
    backfill,     \* the locals of backfill_tags.py's main()
    \* sync_traction_for_all_origins
    rollup,       \* per origin id, the traction columns of its row
    traction,     \* the locals of sync_traction_for_all_origins
    \* main() around upsert_to_supabase
    main,         \* per run of main(), its position outside upsert_to_supabase
    metadata,     \* per domain, the scraped columns written to its origins row
    sync_history  \* rows of table sync_history

pureVars == <<call, ret>>

fetchVars == <<catalog, fac, fpc, offset, retry, all_items, combined, attempts, last, upto>>

tagVars == <<resource_tags, backfill>>

syncVars == <<origins, resources, accepts, run, started, failures, tagVars>>

tractionVars == <<rollup, traction>>

mainVars == <<main, metadata, sync_history>>

vars == <<pureVars, fetchVars, syncVars, tractionVars, mainVars>>

NumFacilitators == Len(Facilitators)

NoCall == [fn |-> "none", arg |-> <<>>]

\* backfill_tags.py is not running
IdleBackfill == [pc |-> "idle", tag_map |-> {}, rows |-> <<>>, i |-> 0, t |-> 0]

\* sync_traction_for_all_origins is not running. total_vol holds the amounts
\* added to 0.0, in the order they were added; log holds, for every origin the
\* run is through with, how it ended, and lost the lookups and provider calls
\* that failed for the origin at hand
IdleTraction ==
    [pc |-> "idle", alchemy |-> FALSE, helius |-> FALSE, now |-> 0,
     origins |-> <<>>, i |-> 0, expected_prices |-> <<>>,
     total_tx |-> 0, total_vol |-> <<>>, all_buyers |-> {}, last_tx |-> <<>>,
     addresses |-> <<>>, j |-> 0, updated_count |-> 0, skipped_count |-> 0,
     lost |-> {}, queried |-> {}, log |-> <<>>]

\* outcome of a request, the offset and retry round it was sent in, the number
\* of items of a 200 response, and the run of 429 answers it prolongs
NoResponse == [outcome |-> "none", offset |-> 0, retry |-> 0, raw |-> 0, streak |-> 0]

\* ------------------------------------------------- the facilitator client
\* the raw listings the endpoints serve
F_ok == Listing(URL_run, Date1, Desc_a, Field(TRUE, <<Accept(Net_base, Amt_1000000)>>))

F_mixed == Listing(URL_v1, Date2, Desc_b,
                   Field(TRUE, <<Accept(Net_Base_Sepolia, Amt_1000000), Accept(Net_solana, Amt_1500000)>>))

F_hosted == Listing(URL_hosted, Date1, Desc_a, Field(TRUE, <<Accept(Net_base, Amt_1000000)>>))

F_testnet == Listing(URL_run, Date2, Desc_b,
                     Field(TRUE, <<Accept(Net_base_sepolia, Amt_1000000), Accept(Net_mumbai, Amt_1000000)>>))

F_no_accepts == Listing(URL_run, Date1, Desc_b, NoField)

F_empty_accepts == Listing(URL_v1, Date1, Desc_a, Field(TRUE, <<>>))

F_no_url == Listing(<<>>, Date1, Desc_a, Field(TRUE, <<Accept(Net_polygon, Amt_1000000)>>))

\* a page of exactly Limit listings, cycling through `some`
FullPage(some) == [i \in 1..Limit |-> some[((i - 1) % Len(some)) + 1]]

Catalogs == {
    <<>>,
    FullPage(<<F_ok, F_mixed>>) \o FullPage(<<F_hosted, F_testnet>>) \o <<F_no_url>>,
    FullPage(<<F_ok>>) \o <<F_mixed, Malformed>>,
    FullPage(<<F_no_accepts, F_empty_accepts>>) }

\* what the endpoint serves for ?offset=..&limit=..
ServedPage(f, off) ==
    LET n == Len(catalog[f])
        hi == IF off + Limit < n THEN off + Limit ELSE n
    IN  SubSeq(catalog[f], off + 1, hi)

DataItems(seq) == [present |-> TRUE, isdict |-> TRUE, items |-> Field(TRUE, seq)]

\* the formats in which an endpoint may send a page
Shapes(page) == {
    ListBody(page),
    DictBody(Field(TRUE, page), NoField, NoData),
    DictBody(NoField, Field(TRUE, page), NoData),
    DictBody(NoField, NoField, DataItems(page)),
    DictBody(Field(TRUE, <<>>), Field(TRUE, page), NoData),
    DictBody(Field(TRUE, <<>>), NoField, DataItems(page)) }

\* the `for item in items` loop of fetch_with_pagination from items[i] on:
\* the grown all_items, and whether an item raised
RECURSIVE ProcessItems(_, _, _)
ProcessItems(items, i, acc) ==
    IF i > Len(items)
    THEN [acc |-> acc, raised |-> FALSE]
    ELSE LET item == items[i]
         IN  IF ~item.wellformed
             THEN [acc |-> acc, raised |-> TRUE]
             ELSE IF item.resource # <<>> /\ is_hosting_domain(urlparse(item.resource).netloc)
                  THEN ProcessItems(items, i + 1, acc)
                  ELSE IF item.accepts.present /\ item.accepts.val # <<>>
                       THEN LET kept == filter_accepts(item.accepts.val)
                            IN  IF kept = <<>>
                                THEN ProcessItems(items, i + 1, acc)
                                ELSE ProcessItems(items, i + 1,
                                         Append(acc, [item EXCEPT !.accepts = Field(TRUE, kept)]))
                       ELSE ProcessItems(items, i + 1, acc)

Response(outcome, raw) ==
    [outcome |-> outcome, offset |-> offset, retry |-> retry, raw |-> raw,
     streak |-> IF outcome = "429" THEN last.streak + 1 ELSE 0]

LastPageOffByOne(items) == Len(items) <= Limit

\* `if len(items) < limit: return all_items`
LastPage(items) == Len(items) < Limit

\* `return all_items` of fetch_with_pagination
Return == /\ fpc' = "returned"
          /\ UNCHANGED <<offset, retry>>

\* the next value of `retry`: the for loop ends after max_retries rounds and
\* `while True` starts it again
NextRetry == IF retry + 1 < max_retries THEN retry + 1 ELSE 0

GiveUpNever == FALSE

\* `if retry == max_retries - 1` of the two handlers
GiveUp == retry = max_retries - 1

\* the handlers of a non-429 HTTPError and of any other exception
Handler == IF GiveUp
           THEN Return
           ELSE /\ retry' = NextRetry
                /\ UNCHANGED <<fpc, offset>>

\* a request of the page at `offset` is sent
Requesting == /\ fpc = "request"
              /\ attempts < MaxAttempts

Retried == attempts' = attempts + 1

\* a 200 response whose items are all processed
PageFetched ==
    /\ Requesting
    /\ \E body \in Shapes(ServedPage(fac, offset)) :
          LET items == ExtractItems(body)
              done == ProcessItems(items, 1, all_items)
          IN  /\ items = <<>> \/ ~done.raised
              /\ last' = Response("ok", Len(items))
              /\ IF items = <<>>
                 THEN Return /\ Retried /\ UNCHANGED <<all_items, upto>>
                 ELSE /\ all_items' = done.acc
                      /\ upto' = [upto EXCEPT ![fac] = offset + Len(items)]
                      /\ IF LastPage(items)
                         THEN Return /\ Retried
                         ELSE /\ offset' = offset + Limit
                              /\ retry' = 0
                              /\ attempts' = 0
                              /\ fpc' = fpc
    /\ UNCHANGED <<catalog, fac, combined, pureVars, syncVars, tractionVars, mainVars>>

\* a 200 response with an item that raises while the items are processed
PageRaised ==
    /\ Requesting
    /\ \E body \in Shapes(ServedPage(fac, offset)) :
          LET items == ExtractItems(body)
              done == ProcessItems(items, 1, all_items)
          IN  /\ items # <<>> /\ done.raised
              /\ last' = Response("raised", Len(items))
              /\ all_items' = done.acc
    /\ Retried
    /\ Handler
    /\ UNCHANGED <<catalog, fac, combined, upto, pureVars, syncVars, tractionVars, mainVars>>

\* HTTP 429
RateLimited ==
    /\ Requesting
    /\ last' = Response("429", 0)
    /\ Retried
    /\ retry' = NextRetry
    /\ UNCHANGED <<catalog, fac, fpc, offset, all_items, combined, upto, pureVars, syncVars, tractionVars, mainVars>>

\* an HTTPError with another code
HttpError ==
    /\ Requesting
    /\ last' = Response("http", 0)
    /\ Retried
    /\ Handler
    /\ UNCHANGED <<catalog, fac, all_items, combined, upto, pureVars, syncVars, tractionVars, mainVars>>

\* a timeout, a connection error, a body that is no JSON
RequestFailed ==
    /\ Requesting
    /\ last' = Response("error", 0)
    /\ Retried
    /\ Handler
    /\ UNCHANGED <<catalog, fac, all_items, combined, upto, pureVars, syncVars, tractionVars, mainVars>>

\* all_items.extend(items) of fetch_all_discovery
Extend(items) == combined \o items

\* fetch_all_discovery takes what fetch_with_pagination returned and goes on
\* to the next facilitator
NextFacilitator ==
    /\ fpc = "returned"
    /\ combined' = Extend(all_items)
    /\ fac' = fac + 1
    /\ fpc' = IF fac + 1 > NumFacilitators THEN "done" ELSE "request"
    /\ offset' = 0
    /\ retry' = 0
    /\ all_items' = <<>>
    /\ attempts' = 0
    /\ last' = NoResponse
    /\ UNCHANGED <<catalog, upto, pureVars, syncVars, tractionVars, mainVars>>

FetchInit ==
    /\ call = NoCall
    /\ ret = <<>>
    /\ catalog \in [1..NumFacilitators -> Catalogs]
    /\ fac = 1
    /\ fpc = "request"
    /\ offset = 0
    /\ retry = 0
    /\ all_items = <<>>
    /\ combined = <<>>
    /\ attempts = 0
    /\ last = NoResponse
    /\ upto = [f \in 1..NumFacilitators |-> 0]
    /\ origins = <<>>
    /\ resources = <<>>
    /\ accepts = <<>>
    /\ run = <<>>
    /\ started = 0
    /\ failures = 0
    /\ resource_tags = <<>>
    /\ backfill = IdleBackfill
    /\ rollup = <<>>
    /\ traction = IdleTraction
    /\ main = <<>>
    /\ metadata = {}
    /\ sync_history = <<>>

FetchNext == \/ PageFetched
             \/ PageRaised
             \/ RateLimited
             \/ HttpError
             \/ RequestFailed
             \/ NextFacilitator

SpecFetch == FetchInit /\ [][FetchNext]_vars

\* ------------------------------------------------------ pure function calls
Pages == {<<>>, <<F_ok>>, <<F_ok, F_mixed>>}

FieldValues == {NoField} \cup {Field(TRUE, seq) : seq \in Pages}

DataValues == {NoData, [present |-> TRUE, isdict |-> FALSE, items |-> NoField]}
                  \cup {[present |-> TRUE, isdict |-> TRUE, items |-> f] : f \in FieldValues}

\* the decoded bodies handed to ExtractItems
Bodies == {ListBody(seq) : seq \in Pages}
              \cup {DictBody(i, r, d) : i \in FieldValues, r \in FieldValues, d \in DataValues}
              \cup {OtherBody}

\* the hosts handed to is_hosting_domain
Hosts == {
    <<>>,
    Host_svc,
    Host_vercel,
    Host_mid,
    <<"a","p","i",".","e","x","a","m","p","l","e",".","c","o","m">>,
    <<"l","o","c","a","l","h","o","s","t">>,
    <<"l","o","c","a","l","h","o","s","t",":","3","0","0","0">>,
    <<"L","O","C","A","L","H","O","S","T">>,
    <<"M","y",".","P","a","g","e","s",".","D","e","v">>,
    <<"v","e","r","c","e","l",".","a","p","p">> }

Mainnets == {Net_base, Net_solana, Net_polygon}

\* the network names handed to is_testnet
Networks == Mainnets \cup {<<>>, Net_base_sepolia, Net_Base_Sepolia, Net_SOLANA_DEVNET, Net_mumbai}

OneAccept == Field(TRUE, <<Accept(Net_base, Amt_1000000)>>)

\* the listings handed to deduplicate_resources
DedupeListings ==
    {Listing(u, d, Desc_a, OneAccept) : u \in {URL_run, URL_v1}, d \in {<<>>, Date1, Date2}}
        \cup {Listing(u, Date2, Desc_b, OneAccept) : u \in {URL_run, URL_v1}}
        \cup {Listing(<<>>, Date1, Desc_a, OneAccept)}

DedupeInputs == UNION {[1..n -> DedupeListings] : n \in 0..MaxItems}

CallExtract ==
    /\ call = NoCall
    /\ \E body \in Bodies :
          /\ call' = [fn |-> "extract", arg |-> body]
          /\ ret' = ExtractItems(body)
    /\ UNCHANGED <<fetchVars, syncVars, tractionVars, mainVars>>

CallIsHostingDomain ==
    /\ call = NoCall
    /\ \E host \in Hosts :
          /\ call' = [fn |-> "is_hosting_domain", arg |-> host]
          /\ ret' = is_hosting_domain(host)
    /\ UNCHANGED <<fetchVars, syncVars, tractionVars, mainVars>>

CallIsTestnet ==
    /\ call = NoCall
    /\ \E network \in Networks :
          /\ call' = [fn |-> "is_testnet", arg |-> network]
          /\ ret' = is_testnet(network)
    /\ UNCHANGED <<fetchVars, syncVars, tractionVars, mainVars>>

CallDeduplicate ==
    /\ call = NoCall
    /\ \E items \in DedupeInputs :
          /\ call' = [fn |-> "deduplicate_resources", arg |-> items]
          /\ ret' = deduplicate_resources(items)
    /\ UNCHANGED <<fetchVars, syncVars, tractionVars, mainVars>>

\* the arguments detect_tags is called with
URL_swap == <<"h","t","t","p","s",":","/","/","x",".","c","o","m","/","a","p","i","/","s","w","a","p">>

URL_foo == <<"h","t","t","p","s",":","/","/","e","x","a","m","p","l","e",".","c","o","m","/","f","o","o">>

URL_NFT == <<"h","t","t","p","s",":","/","/","s","v","c",".","e","x","a","m","p","l","e","/","N","F","T","/","M","i","n","t">>

Desc_swap == <<"T","o","k","e","n"," ","s","w","a","p"," ","s","e","r","v","i","c","e">>

Desc_chat == <<"G","P","T"," ","c","h","a","t"," ","A","g","e","n","t">>

TagUrls == {URL_run, URL_v1, URL_hosted, URL_swap, URL_foo, URL_NFT}

TagDescriptions == {<<>>, Desc_a, Desc_b, Desc_swap, Desc_chat}

CallDetectTags ==
    /\ call = NoCall
    /\ \E u \in TagUrls, d \in TagDescriptions :
          /\ call' = [fn |-> "detect_tags", arg |-> [url |-> u, description |-> d]]
          /\ ret' = detect_tags(u, d)
    /\ UNCHANGED <<fetchVars, syncVars, tractionVars, mainVars>>

\* transfer amounts and expected prices, in millionths of a dollar
TransferAmounts == {0, 9000, 10000, 11000, 1243000, 1800000, 2100000, 2200000, 2300000}

PriceLists == {<<>>, <<0>>, <<10000>>, <<2000000>>, <<1130000>>, <<0, 2000000>>, <<10000, 2000000>>}

CallIsValidTransfer ==
    /\ call = NoCall
    /\ \E a \in TransferAmounts, ps \in PriceLists :
          /\ call' = [fn |-> "is_valid_x402_transfer", arg |-> [amount |-> a, prices |-> ps]]
          /\ ret' = is_valid_x402_transfer(Usd(a), [i \in 1..Len(ps) |-> Usd(ps[i])])
    /\ UNCHANGED <<fetchVars, syncVars, tractionVars, mainVars>>

\* the call returns to its caller
CallReturn ==
    /\ call # NoCall
    /\ call' = NoCall
    /\ ret' = <<>>
    /\ UNCHANGED <<fetchVars, syncVars, tractionVars, mainVars>>

PureInit ==
    /\ call = NoCall
    /\ ret = <<>>
    /\ catalog = <<>>
    /\ fac = 0
    /\ fpc = "idle"
    /\ offset = 0
    /\ retry = 0
    /\ all_items = <<>>
    /\ combined = <<>>
    /\ attempts = 0
    /\ last = NoResponse
    /\ upto = <<>>
    /\ origins = <<>>
    /\ resources = <<>>
    /\ accepts = <<>>
    /\ run = <<>>
    /\ started = 0
    /\ failures = 0
    /\ resource_tags = <<>>
    /\ backfill = IdleBackfill
    /\ rollup = <<>>
    /\ traction = IdleTraction
    /\ main = <<>>
    /\ metadata = {}
    /\ sync_history = <<>>

PureNext == \/ CallExtract
            \/ CallIsHostingDomain
            \/ CallIsTestnet
            \/ CallDeduplicate
            \/ CallDetectTags
            \/ CallIsValidTransfer
            \/ CallReturn

SpecPure == PureInit /\ [][PureNext]_vars

\* ------------------------------------------------------------- the store
\* the rows of a table with their ids
Ids(table) == 1..Len(table)

\* int(s): surrounding blanks, an optional sign and decimal digits
Strip(s) ==
    LET inked == {i \in 1..Len(s) : s[i] # " "}
    IN  IF inked = {}
        THEN <<>>
        ELSE SubSeq(s, CHOOSE i \in inked : \A j \in inked : i <= j,
                       CHOOSE i \in inked : \A j \in inked : i >= j)

DigitValue(c) == (CHOOSE i \in 1..10 : Digits[i] = c) - 1

RECURSIVE DecimalValue(_, _, _)
DecimalValue(s, i, acc) ==
    IF i > Len(s) THEN acc ELSE DecimalValue(s, i + 1, 10 * acc + DigitValue(s[i]))

ParseInt(s) ==
    LET t == Strip(s)
        signed == t # <<>> /\ t[1] \in {"+", "-"}
        digits == IF signed THEN SubSeq(t, 2, Len(t)) ELSE t
        ok == digits # <<>> /\ \A i \in 1..Len(digits) : \E d \in 1..10 : Digits[d] = digits[i]
        magnitude == DecimalValue(digits, 1, 0)
    IN  [ok |-> ok,
         val |-> IF ~ok THEN 0 ELSE IF signed /\ t[1] = "-" THEN 0 - magnitude ELSE magnitude]

\* amount / 1_000_000 as whole dollars and millionths
PriceUsd(amount) == [units |-> amount \div USDC_UNIT, micros |-> amount % USDC_UNIT]

NoPrice == [present |-> FALSE, val |-> PriceUsd(0)]

\* origin, domain and path of a resource URL
OriginOf(resource_url) ==
    LET parsed == urlparse(resource_url)
    IN  [origin |-> parsed.scheme \o Str_sep \o parsed.netloc,
         domain |-> parsed.netloc,
         path |-> IF parsed.path = <<>> THEN <<"/">> ELSE parsed.path]

\* table origins is unique by domain as well as by origin
DomainTaken(domain) == \E id \in Ids(origins) : origins[id].domain = domain

OriginRow(origin) == IF \E id \in Ids(origins) : origins[id].origin = origin
                     THEN CHOOSE id \in Ids(origins) : origins[id].origin = origin
                     ELSE 0

UpsertOriginInsert(origin_data) ==
    [table |-> Append(origins, origin_data), id |-> Len(origins) + 1]

\* origins.upsert(origin_data, on_conflict='origin'): the table after it and
\* the id of the row it returns; `fresh` is created_at == updated_at
UpsertOrigin(origin_data) ==
    LET id == OriginRow(origin_data.origin)
    IN  IF id # 0
        THEN [table |-> [origins EXCEPT ![id] = [origin_data EXCEPT !.fresh = FALSE]], id |-> id]
        ELSE [table |-> Append(origins, origin_data), id |-> Len(origins) + 1]

ResourceRow(resource_url) ==
    IF \E id \in Ids(resources) : resources[id].resource = resource_url
    THEN CHOOSE id \in Ids(resources) : resources[id].resource = resource_url
    ELSE 0

UpsertResourceInsert(resource_data) ==
    [table |-> Append(resources, resource_data), id |-> Len(resources) + 1]

\* resources.upsert(resource_data, on_conflict='resource'): a conflicting row
\* takes the columns the payload holds; `description` is in the payload only
\* when the listing has one
UpsertResource(resource_data) ==
    LET id == ResourceRow(resource_data.resource)
        merged == IF id # 0 /\ resource_data.description = <<>>
                  THEN [resource_data EXCEPT !.description = resources[id].description]
                  ELSE resource_data
    IN  IF id # 0
        THEN [table |-> [resources EXCEPT ![id] = merged], id |-> id]
        ELSE [table |-> Append(resources, resource_data), id |-> Len(resources) + 1]

AcceptRow(accept_data) ==
    LET same(id) == /\ accepts[id].resource_id = accept_data.resource_id
                    /\ accepts[id].scheme = accept_data.scheme
                    /\ accepts[id].network = accept_data.network
    IN  IF \E id \in Ids(accepts) : same(id)
        THEN CHOOSE id \in Ids(accepts) : same(id)
        ELSE 0

UpsertAcceptInsert(accept_data) == Append(accepts, accept_data)

\* accepts.upsert(accept_data, on_conflict='resource_id,scheme,network'): a
\* conflicting row takes the columns the payload holds; `price_usd` is in the
\* payload only when maxAmountRequired parsed
UpsertAccept(accept_data) ==
    LET id == AcceptRow(accept_data)
        merged == IF id # 0 /\ ~accept_data.price_usd.present
                  THEN [accept_data EXCEPT !.price_usd = accepts[id].price_usd]
                  ELSE accept_data
    IN  IF id # 0
        THEN [accepts EXCEPT ![id] = merged]
        ELSE Append(accepts, accept_data)

\* table tags: a row per category and one for 'other'; a tag's id is its name
TagsTable == {TAG_KEYWORDS[i].name : i \in 1..Len(TAG_KEYWORDS)} \cup {"other"}

UpsertResourceTagReplacing(table, resource_id, tag_id) ==
    Append(SelectSeq(table, LAMBDA row : row.resource_id # resource_id),
           [resource_id |-> resource_id, tag_id |-> tag_id])

\* resource_tags.upsert({resource_id, tag_id}, on_conflict='resource_id,tag_id')
UpsertResourceTag(table, resource_id, tag_id) ==
    IF \E id \in Ids(table) : table[id] = [resource_id |-> resource_id, tag_id |-> tag_id]
    THEN table
    ELSE Append(table, [resource_id |-> resource_id, tag_id |-> tag_id])

\* what the store holds, without the timestamps the store sets itself
StoreFacts ==
    [origins |-> [id \in Ids(origins) |-> [origin |-> origins[id].origin, domain |-> origins[id].domain]],
     resources |-> resources,
     accepts |-> accepts,
     resource_tags |-> resource_tags]

\* ------------------------------------------------------- upsert_to_supabase
ZeroStats == [new_origins |-> 0, updated_origins |-> 0, new_resources |-> 0,
              updated_resources |-> 0, new_accepts |-> 0, errors |-> 0]

\* the locals of a run of main(): pc is "idle", "dedupe", "snapshot", "tags",
\* "item" (origin resolution of unique_items[i]), "fallback", "resource",
\* "accept" (the k-th accept of the item), "tag" (the t-th detected tag of the
\* item) or "done"; `before` records the store the run started with and
\* `snapshot` the existing_origins it selected
IdleRun == [pc |-> "idle", all_items |-> <<>>, unique_items |-> <<>>, i |-> 0, k |-> 0, t |-> 0,
            existing_origins |-> {}, tag_map |-> {}, origin_id |-> 0, resource_id |-> 0,
            stats |-> ZeroStats, new_origin_domains |-> <<>>,
            before |-> [origins |-> <<>>, resources |-> <<>>, accepts |-> <<>>, resource_tags |-> <<>>],
            snapshot |-> {}]

Runs == 1..MaxRuns

\* the listings main() gets from fetch_all_discovery
S_run_old == Listing(URL_run, Date1, Desc_a, Field(TRUE, <<Accept(Net_base, Amt_1000000)>>))

S_run_new == Listing(URL_run, Date2, Desc_b, Field(TRUE, <<Accept(Net_base, Amt_1500000)>>))

S_run_odd == Listing(URL_run, Date2, <<>>, Field(TRUE, <<Accept(Net_base, Amt_abc)>>))

S_v1 == Listing(URL_v1, Date1, <<>>,
                Field(TRUE, <<Accept(Net_base, Amt_1000000), Accept(Net_solana, Amt_1500000)>>))

\* what fetch_all_discovery may return to a run
SyncInputs == {
    <<>>,
    <<S_run_old>>,
    <<S_run_odd>>,
    <<F_no_url>>,
    <<S_run_old, S_run_new>>,
    <<S_run_new, S_run_old>>,
    <<S_run_new, S_run_odd>>,
    <<S_v1, S_run_new>> }

\* detect_tags of the URLs and descriptions of these listings
DetectedTable == {[resource |-> u, description |-> d, tags |-> detect_tags(u, d)] :
                     u \in {URL_run, URL_v1, URL_sub}, d \in {<<>>, Desc_a, Desc_b}}

Detected(resource_url, description) ==
    (CHOOSE e \in DetectedTable : e.resource = resource_url /\ e.description = description).tags

Item(r) == run[r].unique_items[run[r].i]

AcceptsOf(item) == IF item.accepts.present THEN item.accepts.val ELSE <<>>

\* existing_origins.get(domain), 0 for None
CachedOrigin(r, domain) ==
    IF \E e \in run[r].existing_origins : e[1] = domain
    THEN (CHOOSE e \in run[r].existing_origins : e[1] = domain)[2]
    ELSE 0

\* existing_origins[domain] = origin_id
Remember(existing, domain, origin_id) ==
    {e \in existing : e[1] # domain} \cup {<<domain, origin_id>>}

Count(stats, counter) == [stats EXCEPT ![counter] = @ + 1]

\* the for loop goes on to the next listing
NextItem(rr) ==
    [rr EXCEPT !.i = @ + 1, !.k = 0, !.t = 0, !.origin_id = 0, !.resource_id = 0,
               !.pc = IF rr.i + 1 > Len(rr.unique_items) THEN "done" ELSE "item"]

\* a store call fails
Fails == /\ failures < MaxFailures
         /\ failures' = failures + 1

\* main() has fetched; a run starts when the runs before it are done
StartRun(r) ==
    /\ r = started + 1
    /\ \A q \in Runs : q < r => run[q].pc \in {"idle", "done"}
    /\ backfill.pc = "idle"
    /\ \E items \in SyncInputs :
          run' = [run EXCEPT ![r] = [IdleRun EXCEPT !.pc = "dedupe", !.all_items = items,
                                                    !.before = StoreFacts]]
    /\ started' = r
    /\ UNCHANGED <<origins, resources, accepts, failures, pureVars, fetchVars, tagVars, tractionVars, mainVars>>

\* unique_items = deduplicate_resources(all_items)
Deduplicate(r) ==
    /\ run[r].pc = "dedupe"
    /\ ~DedupeRaises(run[r].all_items)
    /\ run' = [run EXCEPT ![r].pc = "snapshot",
                          ![r].unique_items = deduplicate_resources(run[r].all_items)]
    /\ UNCHANGED <<origins, resources, accepts, started, failures, pureVars, fetchVars, tagVars, tractionVars, mainVars>>

\* existing_origins = {domain: id} of all origins
Snapshot(r) ==
    /\ run[r].pc = "snapshot"
    /\ run' = [run EXCEPT ![r].existing_origins = {<<origins[id].domain, id>> : id \in Ids(origins)},
                          ![r].snapshot = {<<origins[id].domain, id>> : id \in Ids(origins)},
                          ![r].pc = "tags"]
    /\ UNCHANGED <<origins, resources, accepts, started, failures, pureVars, fetchVars, tagVars, tractionVars, mainVars>>

\* the select of the origins raises: existing_origins stays empty
SnapshotFails(r) ==
    /\ run[r].pc = "snapshot"
    /\ Fails
    /\ run' = [run EXCEPT ![r].pc = "tags"]
    /\ UNCHANGED <<origins, resources, accepts, started, pureVars, fetchVars, tagVars, tractionVars, mainVars>>

\* tag_map = {name: id} of all tags
TagMap(r) ==
    /\ run[r].pc = "tags"
    /\ run' = [run EXCEPT ![r] = NextItem([run[r] EXCEPT !.tag_map = TagsTable])]
    /\ UNCHANGED <<origins, resources, accepts, started, failures, pureVars, fetchVars, tagVars, tractionVars, mainVars>>

\* the select of the tags raises: tag_map stays empty
TagMapFails(r) ==
    /\ run[r].pc = "tags"
    /\ Fails
    /\ run' = [run EXCEPT ![r] = NextItem(run[r])]
    /\ UNCHANGED <<origins, resources, accepts, started, pureVars, fetchVars, tagVars, tractionVars, mainVars>>

\* the domain is in existing_origins
OriginCached(r) ==
    /\ run[r].pc = "item"
    /\ LET origin_id == CachedOrigin(r, OriginOf(Item(r).resource).domain)
       IN  /\ origin_id # 0
           /\ run' = [run EXCEPT ![r].origin_id = origin_id,
                                 ![r].stats = Count(@, "updated_origins"),
                                 ![r].pc = "resource"]
    /\ UNCHANGED <<origins, resources, accepts, started, failures, pureVars, fetchVars, tagVars, tractionVars, mainVars>>

IsNewInsertAlways(row) == TRUE

\* result.data[0].get('created_at') == result.data[0].get('updated_at')
IsNewInsert(row) == row.fresh

\* the domain is not in existing_origins: upsert on the origin URL
OriginUpsert(r) ==
    /\ run[r].pc = "item"
    /\ LET parsed == OriginOf(Item(r).resource)
           result == UpsertOrigin([origin |-> parsed.origin, domain |-> parsed.domain, fresh |-> TRUE])
           fresh == IsNewInsert(result.table[result.id])
       IN  /\ CachedOrigin(r, parsed.domain) = 0
           /\ OriginRow(parsed.origin) # 0 \/ ~DomainTaken(parsed.domain)
           /\ origins' = result.table
           /\ run' = [run EXCEPT
                  ![r].origin_id = result.id,
                  ![r].existing_origins = Remember(@, parsed.domain, result.id),
                  ![r].new_origin_domains = IF fresh THEN Append(@, parsed.domain) ELSE @,
                  ![r].stats = Count(@, IF fresh THEN "new_origins" ELSE "updated_origins"),
                  ![r].pc = "resource"]
    /\ UNCHANGED <<resources, accepts, started, failures, pureVars, fetchVars, tagVars, tractionVars, mainVars>>

\* the upsert raises: the domain belongs to a row with another origin URL
OriginConflict(r) ==
    /\ run[r].pc = "item"
    /\ LET parsed == OriginOf(Item(r).resource)
       IN  /\ CachedOrigin(r, parsed.domain) = 0
           /\ OriginRow(parsed.origin) = 0 /\ DomainTaken(parsed.domain)
    /\ run' = [run EXCEPT ![r].pc = "fallback"]
    /\ UNCHANGED <<origins, resources, accepts, started, failures, pureVars, fetchVars, tagVars, tractionVars, mainVars>>

\* the upsert raises for another reason
OriginUpsertFails(r) ==
    /\ run[r].pc = "item"
    /\ CachedOrigin(r, OriginOf(Item(r).resource).domain) = 0
    /\ Fails
    /\ run' = [run EXCEPT ![r].pc = "fallback"]
    /\ UNCHANGED <<origins, resources, accepts, started, pureVars, fetchVars, tagVars, tractionVars, mainVars>>

\* the fallback select of the origin by domain finds its row
OriginFallback(r) ==
    /\ run[r].pc = "fallback"
    /\ LET domain == OriginOf(Item(r).resource).domain
       IN  /\ DomainTaken(domain)
           /\ LET origin_id == CHOOSE id \in Ids(origins) : origins[id].domain = domain
              IN  run' = [run EXCEPT
                     ![r].origin_id = origin_id,
                     ![r].existing_origins = Remember(@, domain, origin_id),
                     ![r].stats = Count(@, "updated_origins"),
                     ![r].pc = "resource"]
    /\ UNCHANGED <<origins, resources, accepts, started, failures, pureVars, fetchVars, tagVars, tractionVars, mainVars>>

\* .single() raises, there is no row of the domain: no origin_id, an error
\* is counted and the listing is left
OriginMissing(r) ==
    /\ run[r].pc = "fallback"
    /\ ~DomainTaken(OriginOf(Item(r).resource).domain)
    /\ run' = [run EXCEPT ![r] = NextItem([run[r] EXCEPT !.stats = Count(@, "errors")])]
    /\ UNCHANGED <<origins, resources, accepts, started, failures, pureVars, fetchVars, tagVars, tractionVars, mainVars>>

\* resource_data of the listing
ResourceData(item, origin_id) ==
    [resource |-> item.resource,
     origin_id |-> origin_id,
     path |-> OriginOf(item.resource).path,
     last_updated |-> item.lastUpdated,
     description |-> item.description]

\* the resource upsert returns the row
ResourceUpsert(r) ==
    /\ run[r].pc = "resource"
    /\ LET result == UpsertResource(ResourceData(Item(r), run[r].origin_id))
           counted == [run[r] EXCEPT !.resource_id = result.id,
                                     !.stats = Count(@, "new_resources")]
       IN  /\ resources' = result.table
           /\ run' = [run EXCEPT ![r] =
                         IF AcceptsOf(Item(r)) = <<>>
                         THEN [counted EXCEPT !.pc = "tag", !.t = 1]
                         ELSE [counted EXCEPT !.pc = "accept", !.k = 1]]
    /\ UNCHANGED <<origins, accepts, started, failures, pureVars, fetchVars, tagVars, tractionVars, mainVars>>

\* the resource upsert raises: the outer handler counts an error
ResourceUpsertFails(r) ==
    /\ run[r].pc = "resource"
    /\ Fails
    /\ run' = [run EXCEPT ![r] = NextItem([run[r] EXCEPT !.stats = Count(@, "errors")])]
    /\ UNCHANGED <<origins, resources, accepts, started, pureVars, fetchVars, tagVars, tractionVars, mainVars>>

\* accept.get('payTo', '') of an accept without payTo
NoPayTo == ""

\* accept_data of an accept; price_usd is left out when int() raises
AcceptData(accept, resource_id) ==
    LET amount == ParseInt(accept.maxAmountRequired)
    IN  [resource_id |-> resource_id,
         scheme |-> accept.scheme,
         network |-> accept.network,
         pay_to |-> NoPayTo,
         max_amount_required |-> accept.maxAmountRequired,
         price_usd |-> IF amount.ok THEN [present |-> TRUE, val |-> PriceUsd(amount.val)]
                       ELSE NoPrice]

\* the accepts loop goes on to the next accept, or the tagging starts
NextAccept(rr) ==
    IF rr.k + 1 > Len(AcceptsOf(rr.unique_items[rr.i]))
    THEN [rr EXCEPT !.pc = "tag", !.t = 1]
    ELSE [rr EXCEPT !.k = @ + 1]

AcceptUpsert(r) ==
    /\ run[r].pc = "accept"
    /\ accepts' = UpsertAccept(AcceptData(AcceptsOf(Item(r))[run[r].k], run[r].resource_id))
    /\ run' = [run EXCEPT ![r] = NextAccept([run[r] EXCEPT !.stats = Count(@, "new_accepts")])]
    /\ UNCHANGED <<origins, resources, started, failures, pureVars, fetchVars, tagVars, tractionVars, mainVars>>

AcceptUpsertFails(r) ==
    /\ run[r].pc = "accept"
    /\ Fails
    /\ run' = [run EXCEPT ![r] = NextAccept([run[r] EXCEPT !.stats = Count(@, "errors")])]
    /\ UNCHANGED <<origins, resources, accepts, started, pureVars, fetchVars, tagVars, tractionVars, mainVars>>

\* detected_tags = detect_tags(resource_url, description)
DetectedTags(item) == Detected(item.resource, item.description)

\* the tagging loop goes on to the next detected tag, or the listing is finished
NextTag(rr) ==
    IF rr.t + 1 > Len(DetectedTags(rr.unique_items[rr.i]))
    THEN NextItem(rr)
    ELSE [rr EXCEPT !.t = @ + 1]

\* the tag is in tag_map: the association is upserted
TagUpsert(r) ==
    /\ run[r].pc = "tag"
    /\ LET tag_id == DetectedTags(Item(r))[run[r].t]
       IN  /\ tag_id \in run[r].tag_map
           /\ resource_tags' = UpsertResourceTag(resource_tags, run[r].resource_id, tag_id)
    /\ run' = [run EXCEPT ![r] = NextTag(run[r])]
    /\ UNCHANGED <<origins, resources, accepts, started, failures, backfill, pureVars, fetchVars, tractionVars, mainVars>>

\* the upsert of the association raises: `except: pass`
TagUpsertFails(r) ==
    /\ run[r].pc = "tag"
    /\ DetectedTags(Item(r))[run[r].t] \in run[r].tag_map
    /\ Fails
    /\ run' = [run EXCEPT ![r] = NextTag(run[r])]
    /\ UNCHANGED <<origins, resources, accepts, started, pureVars, fetchVars, tagVars, tractionVars, mainVars>>

\* tag_map.get(tag_name) is None
TagUnknown(r) ==
    /\ run[r].pc = "tag"
    /\ DetectedTags(Item(r))[run[r].t] \notin run[r].tag_map
    /\ run' = [run EXCEPT ![r] = NextTag(run[r])]
    /\ UNCHANGED <<origins, resources, accepts, started, failures, pureVars, fetchVars, tagVars, tractionVars, mainVars>>

\* ---------------------------------------------------------- backfill_tags
\* the `id, resource, description` of all resources
ResourceRows == [id \in Ids(resources) |->
                    [id |-> id, resource |-> resources[id].resource,
                     description |-> resources[id].description]]

\* tags = detect_tags(resource_url, description) of a selected row
BackfillTags(row) == Detected(row.resource, row.description)

\* the loops over the resources and their tags go on
NextBackfill(b) ==
    IF b.t + 1 <= Len(BackfillTags(b.rows[b.i]))
    THEN [b EXCEPT !.t = @ + 1]
    ELSE IF b.i + 1 <= Len(b.rows)
         THEN [b EXCEPT !.i = @ + 1, !.t = 1]
         ELSE IdleBackfill

\* main() of backfill_tags.py selects the tags and the resources
BackfillStart ==
    /\ backfill.pc = "idle"
    /\ started < MaxRuns
    /\ \A r \in Runs : run[r].pc \in {"idle", "done"}
    /\ started' = started + 1
    /\ backfill' = IF resources = <<>>
                   THEN IdleBackfill
                   ELSE [pc |-> "tag", tag_map |-> TagsTable, rows |-> ResourceRows,
                         i |-> 1, t |-> 1]
    /\ UNCHANGED <<origins, resources, accepts, run, failures, resource_tags,
                   pureVars, fetchVars, tractionVars, mainVars>>

\* one of the two selects raises: nothing catches it, the script ends
BackfillStartFails ==
    /\ backfill.pc = "idle"
    /\ started < MaxRuns
    /\ \A r \in Runs : run[r].pc \in {"idle", "done"}
    /\ Fails
    /\ started' = started + 1
    /\ UNCHANGED <<origins, resources, accepts, run, resource_tags, backfill, pureVars, fetchVars, tractionVars, mainVars>>

\* the association of resource rows[i] with its t-th tag is upserted
BackfillTag ==
    /\ backfill.pc = "tag"
    /\ LET row == backfill.rows[backfill.i]
           tag_id == BackfillTags(row)[backfill.t]
       IN  resource_tags' = IF tag_id \in backfill.tag_map
                            THEN UpsertResourceTag(resource_tags, row.id, tag_id)
                            ELSE resource_tags
    /\ backfill' = NextBackfill(backfill)
    /\ UNCHANGED <<origins, resources, accepts, run, started, failures, pureVars, fetchVars, tractionVars, mainVars>>

\* the upsert raises: `except Exception: pass`
BackfillTagFails ==
    /\ backfill.pc = "tag"
    /\ Fails
    /\ backfill' = NextBackfill(backfill)
    /\ UNCHANGED <<origins, resources, accepts, run, started, resource_tags, pureVars, fetchVars, tractionVars, mainVars>>

SyncInit ==
    /\ call = NoCall
    /\ ret = <<>>
    /\ catalog = <<>>
    /\ fac = 0
    /\ fpc = "idle"
    /\ offset = 0
    /\ retry = 0
    /\ all_items = <<>>
    /\ combined = <<>>
    /\ attempts = 0
    /\ last = NoResponse
    /\ upto = <<>>
    /\ origins = <<>>
    /\ resources = <<>>
    /\ accepts = <<>>
    /\ run = [r \in Runs |-> IdleRun]
    /\ started = 0
    /\ failures = 0
    /\ resource_tags = <<>>
    /\ backfill = IdleBackfill
    /\ rollup = <<>>
    /\ traction = IdleTraction
    /\ main = <<>>
    /\ metadata = {}
    /\ sync_history = <<>>

SyncNext ==
    \/ BackfillStart
    \/ BackfillStartFails
    \/ BackfillTag
    \/ BackfillTagFails
    \/ \E r \in Runs :
        \/ StartRun(r)
        \/ Deduplicate(r)
        \/ Snapshot(r)
        \/ SnapshotFails(r)
        \/ TagMap(r)
        \/ TagMapFails(r)
        \/ OriginCached(r)
        \/ OriginUpsert(r)
        \/ OriginConflict(r)
        \/ OriginUpsertFails(r)
        \/ OriginFallback(r)
        \/ OriginMissing(r)
        \/ ResourceUpsert(r)
        \/ ResourceUpsertFails(r)
        \/ AcceptUpsert(r)
        \/ AcceptUpsertFails(r)
        \/ TagUpsert(r)
        \/ TagUpsertFails(r)
        \/ TagUnknown(r)

SpecSync == SyncInit /\ [][SyncNext]_vars

\* --------------------------------------------------------- overlapping runs
\* what the overlapping runs are handed: a listing of https://svc.example or
\* one of http://svc.example
O_https == Listing(URL_run, Date1, <<>>, Field(TRUE, <<Accept(Net_base, Amt_1000000)>>))

O_http == Listing(URL_v1, Date1, <<>>, Field(TRUE, <<Accept(Net_base, Amt_1000000)>>))

OverlapInputs == {<<O_https>>, <<O_http>>}

\* a run of main() starts while earlier runs are still at work
StartOverlapping(r) ==
    /\ r = started + 1
    /\ \E items \in OverlapInputs :
          run' = [run EXCEPT ![r] = [IdleRun EXCEPT !.pc = "dedupe", !.all_items = items]]
    /\ started' = r
    /\ UNCHANGED <<origins, resources, accepts, failures, pureVars, fetchVars, tagVars, tractionVars, mainVars>>

OverlapInit ==
    /\ call = NoCall
    /\ ret = <<>>
    /\ catalog = <<>>
    /\ fac = 0
    /\ fpc = "idle"
    /\ offset = 0
    /\ retry = 0
    /\ all_items = <<>>
    /\ combined = <<>>
    /\ attempts = 0
    /\ last = NoResponse
    /\ upto = <<>>
    /\ origins = <<>>
    /\ resources = <<>>
    /\ accepts = <<>>
    /\ run = [r \in Runs |-> IdleRun]
    /\ started = 0
    /\ failures = 0
    /\ resource_tags = <<>>
    /\ backfill = IdleBackfill
    /\ rollup = <<>>
    /\ traction = IdleTraction
    /\ main = <<>>
    /\ metadata = {}
    /\ sync_history = <<>>

OverlapNext ==
    \E r \in Runs :
        \/ StartOverlapping(r)
        \/ Deduplicate(r)
        \/ Snapshot(r)
        \/ SnapshotFails(r)
        \/ TagMap(r)
        \/ TagMapFails(r)
        \/ OriginCached(r)
        \/ OriginUpsert(r)
        \/ OriginConflict(r)
        \/ OriginUpsertFails(r)
        \/ OriginFallback(r)
        \/ OriginMissing(r)
        \/ ResourceUpsert(r)
        \/ ResourceUpsertFails(r)
        \/ AcceptUpsert(r)
        \/ AcceptUpsertFails(r)
        \/ TagUpsert(r)
        \/ TagUpsertFails(r)
        \/ TagUnknown(r)

SpecOverlap == OverlapInit /\ [][OverlapNext]_vars

\* ------------------------------------------------- traction reconciliation
\* USDC_ADDRESSES
USDC_base == "0x833589fCD6eDb6E08f4c7C32D4f71b54bdA02913"

USDC_solana == "EPjFWdd5AufqSSqeM2qN1xzybapC8G4wEGGkZwyTDt1v"

Host_api == <<"a","p","i",".","e","x","a","m","p","l","e">>

URL_pay == Str_https \o Str_sep \o Host_api \o <<"/","p","a","y">>

Amt_2000000 == <<"2","0","0","0","0","0","0">>

Amt_0 == <<"0">>

\* blockTimestamp of a Base transfer, as Alchemy gives it
Block_1 == <<"2","0","2","4","-","0","1","-","0","1","T","0","0",":","0","0",":","0","1",".","0","0","0","Z">>

Block_3 == <<"2","0","2","4","-","0","1","-","0","1","T","0","0",":","0","0",":","0","3",".","0","0","0","Z">>

\* timestamp of 2024-01-01T00:00:00 UTC
Epoch_2024 == 1704067200

\* datetime.fromtimestamp(ts, tz=timezone.utc).isoformat(), for the timestamps
\* of the first minute of 2024
isoformat(ts) ==
    LET sec == ts - Epoch_2024
    IN  <<"2","0","2","4","-","0","1","-","0","1","T","0","0",":","0","0",":">> \o <<Digits[(sec \div 10) + 1], Digits[(sec % 10) + 1]>>
            \o <<"+","0","0",":","0","0">>

\* a row of table accepts with its pay_to
PaidAccept(resource_id, network, maxAmountRequired, pay_to) ==
    [AcceptData(Accept(network, maxAmountRequired), resource_id) EXCEPT !.pay_to = pay_to]

\* a store after syncs: svc.example takes payments at two Base addresses and a
\* Solana address, api.example at one Base address
StoreMulti ==
    [origins |-> <<[origin |-> Str_https \o Str_sep \o Host_svc, domain |-> Host_svc, fresh |-> FALSE],
                   [origin |-> Str_https \o Str_sep \o Host_api, domain |-> Host_api, fresh |-> FALSE]>>,
     resources |-> <<ResourceData(Listing(URL_run, Date1, Desc_a, NoField), 1),
                     ResourceData(Listing(URL_v1, Date1, <<>>, NoField), 1),
                     ResourceData(Listing(URL_pay, Date1, <<>>, NoField), 2)>>,
     accepts |-> <<PaidAccept(1, Net_base, Amt_2000000, "0xA"),
                   PaidAccept(1, Net_solana, Amt_2000000, "SoL"),
                   PaidAccept(2, Net_base, Amt_2000000, "0xB"),
                   PaidAccept(3, Net_base, Amt_1000000, "0xC")>>]

\* a store after syncs: svc.example has no usable price, api.example is paid
\* at an address that got no transfer of its price
StoreQuiet ==
    [origins |-> <<[origin |-> Str_https \o Str_sep \o Host_svc, domain |-> Host_svc, fresh |-> FALSE],
                   [origin |-> Str_https \o Str_sep \o Host_api, domain |-> Host_api, fresh |-> FALSE]>>,
     resources |-> <<ResourceData(Listing(URL_run, Date1, Desc_a, NoField), 1),
                     ResourceData(Listing(URL_pay, Date1, <<>>, NoField), 2)>>,
     accepts |-> <<PaidAccept(1, Net_base, Amt_abc, "0xA"),
                   PaidAccept(1, Net_solana, Amt_0, "SoL"),
                   PaidAccept(2, Net_base, Amt_1000000, "0xD"),
                   PaidAccept(2, Net_solana, Amt_1000000, NoPayTo)>>]

Amt_10000 == <<"1","0","0","0","0">>

\* a store after syncs: two resources of svc.example are priced 0.01 and paid
\* at the same Base address
StoreCent ==
    [origins |-> <<[origin |-> Str_https \o Str_sep \o Host_svc, domain |-> Host_svc, fresh |-> FALSE]>>,
     resources |-> <<ResourceData(Listing(URL_run, Date1, Desc_a, NoField), 1),
                     ResourceData(Listing(URL_v1, Date1, <<>>, NoField), 1)>>,
     accepts |-> <<PaidAccept(1, Net_base, Amt_10000, "0xE"),
                   PaidAccept(2, Net_base, Amt_10000, "0xE")>>]

TractionStores == {StoreMulti, StoreQuiet, StoreCent}

\* what alchemy_getAssetTransfers answers for an address: the USDC transfers
\* to it, `value` in millionths
AlchemyTransfers(address) ==
    CASE address = "0xA" -> <<[value |-> 2100000, from |-> "0xX", blockTimestamp |-> Block_1],
                              [value |-> 2300000, from |-> "0xY", blockTimestamp |-> Block_3]>>
      [] address = "0xB" -> <<[value |-> 2000000, from |-> "0xX", blockTimestamp |-> Block_3],
                              [value |-> 1900000, from |-> "", blockTimestamp |-> <<>>]>>
      [] address = "0xC" -> <<[value |-> 1000000, from |-> "0xY", blockTimestamp |-> Block_1]>>
      [] address = "0xD" -> <<[value |-> 2000000, from |-> "0xY", blockTimestamp |-> Block_1]>>
      [] address = "0xE" -> <<[value |-> 9000, from |-> "0xX", blockTimestamp |-> Block_3],
                              [value |-> 10000, from |-> "0xY", blockTimestamp |-> Block_1]>>
      [] OTHER -> <<>>

AlchemyAnswer(address) == [error |-> FALSE, transfers |-> AlchemyTransfers(address)]

\* the request raises, or the answer holds "error"
AlchemyError == [error |-> TRUE, transfers |-> <<>>]

\* what Helius answers for an address: its transactions with their token
\* transfers, `tokenAmount` in millionths
HeliusTransactions(address) ==
    CASE address = "SoL" ->
            <<[timestamp |-> Epoch_2024 + 2,
               tokenTransfers |-> <<[mint |-> USDC_solana, toUserAccount |-> "SoL",
                                     fromUserAccount |-> "SoX", tokenAmount |-> 1900000],
                                    [mint |-> "BoNk", toUserAccount |-> "SoL",
                                     fromUserAccount |-> "SoY", tokenAmount |-> 2000000]>>],
              [timestamp |-> Epoch_2024 + 5,
               tokenTransfers |-> <<[mint |-> USDC_solana, toUserAccount |-> "SoZ",
                                     fromUserAccount |-> "SoL", tokenAmount |-> 2000000]>>]>>
      [] OTHER -> <<>>

HeliusAnswer(address) == [error |-> FALSE, txs |-> HeliusTransactions(address)]

\* the request raises, or the answer is no list
HeliusError == [error |-> TRUE, txs |-> <<>>]

\* is_valid_x402_transfer of the amounts and expected prices of these stores
MatchesTable ==
    {[amount |-> a, prices |-> ps,
      valid |-> is_valid_x402_transfer(Usd(a), <<>> \o [i \in 1..Len(ps) |-> Usd(ps[i])])] :
        a \in {9000, 10000, 1000000, 1900000, 2000000, 2100000, 2300000},
        ps \in {<<10000, 10000>>, <<1000000>>, <<1000000, 1000000>>,
                <<2000000, 2000000, 2000000>>}}

\* is_valid_x402_transfer(amount, expected_prices), both in millionths
Matches(amount, prices) ==
    (CHOOSE e \in MatchesTable : e.amount = amount /\ e.prices = prices).valid

\* get_expected_prices: the truthy price_usd of the accepts of the origin's
\* resources, in millionths
get_expected_prices(origin_id) ==
    LET priced(a) == /\ resources[a.resource_id].origin_id = origin_id
                     /\ a.price_usd.present
                     /\ a.price_usd.val # PriceUsd(0)
        rows == SelectSeq(accepts, priced)
    IN  <<>> \o [i \in 1..Len(rows) |->
                    rows[i].price_usd.val.units * USDC_UNIT + rows[i].price_usd.val.micros]

\* {"tx_count": 0, "volume": 0.0, "buyers": set(), "last_tx": None}
ZeroTraction == [tx_count |-> 0, volume |-> <<>>, buyers |-> {}, last_tx |-> <<>>]

\* the greatest of the timestamps that are set, <<>> if none is
LatestOf(stamps) ==
    LET set == {s \in stamps : s # <<>>}
    IN  IF set = {} THEN <<>>
        ELSE CHOOSE s \in set : \A other \in set : ~StrGreater(other, s)

\* what get_base_traction returns for the transfers it counted
BaseTally(counted) ==
    [tx_count |-> Len(counted),
     volume |-> <<>> \o [i \in 1..Len(counted) |-> counted[i].value],
     buyers |-> {counted[i].from : i \in 1..Len(counted)} \ {""},
     last_tx |-> LatestOf({counted[i].blockTimestamp : i \in 1..Len(counted)})]

get_base_traction(key, address, expected_prices, data) ==
    IF ~key \/ data.error \/ data.transfers = <<>>
    THEN ZeroTraction
    ELSE LET valid(t) == Matches(t.value, expected_prices)
         IN  BaseTally(SelectSeq(data.transfers, valid))

\* the token transfers of the transactions from the i-th on, each with the
\* timestamp of its transaction
RECURSIVE TokenTransfers(_, _)
TokenTransfers(txs, i) ==
    IF i > Len(txs)
    THEN <<>>
    ELSE [k \in 1..Len(txs[i].tokenTransfers) |->
             [timestamp |-> txs[i].timestamp, transfer |-> txs[i].tokenTransfers[k]]]
         \o TokenTransfers(txs, i + 1)

\* the greatest of the timestamps that are set, as a string; <<>> if none is
LastTxStr(stamps) ==
    IF stamps \ {0} = {}
    THEN <<>>
    ELSE isoformat(CHOOSE s \in stamps : \A other \in stamps : other <= s)

\* what get_solana_traction returns for the transfers it counted
SolanaTally(counted) ==
    [tx_count |-> Len(counted),
     volume |-> <<>> \o [i \in 1..Len(counted) |-> counted[i].transfer.tokenAmount],
     buyers |-> {counted[i].transfer.fromUserAccount : i \in 1..Len(counted)} \ {""},
     last_tx |-> LastTxStr({counted[i].timestamp : i \in 1..Len(counted)})]

get_solana_traction(key, address, expected_prices, data) ==
    IF ~key \/ data.error
    THEN ZeroTraction
    ELSE LET valid(e) == /\ e.transfer.mint = USDC_solana
                         /\ e.transfer.toUserAccount = address
                         /\ Matches(e.transfer.tokenAmount, expected_prices)
         IN  SolanaTally(SelectSeq(TokenTransfers(data.txs, 1), valid))

\* list(set(a["pay_to"] for a in ... if a.get("pay_to"))) of the origin's
\* accepts on a network: the addresses, in any order
PayeeLists(origin_id, network) ==
    LET payees == {accepts[id].pay_to : id \in
                      {id \in Ids(accepts) : /\ resources[accepts[id].resource_id].origin_id = origin_id
                                             /\ accepts[id].network = network}} \ {NoPayTo}
    IN  {order \in [1..Cardinality(payees) -> payees] :
            \A p \in payees : \E i \in DOMAIN order : order[i] = p}

AggregateOverwriting(tt, t) ==
    [tt EXCEPT !.total_tx = t.tx_count,
               !.total_vol = IF t.volume = <<>> THEN <<>> ELSE <<t.volume>>,
               !.all_buyers = t.buyers,
               !.last_tx = t.last_tx]

\* total_tx += t["tx_count"] .. last_tx = t["last_tx"]
Aggregate(tt, t) ==
    [tt EXCEPT !.total_tx = @ + t.tx_count,
               !.total_vol = IF t.volume = <<>> THEN @ ELSE Append(@, t.volume),
               !.all_buyers = @ \cup t.buyers,
               !.last_tx = IF t.last_tx # <<>> /\ (@ = <<>> \/ StrGreater(t.last_tx, @))
                           THEN t.last_tx ELSE @]

\* the columns of an origin no reconciliation has written
NoRollup == [total_transactions |-> 0, total_volume_usd |-> <<>>, unique_buyers |-> 0,
             last_transaction_at |-> <<>>, traction_updated_at |-> 0]

OriginAtHand == traction.origins[traction.i]

\* the loop is through with an origin: the next one, or the run ends
NextOrigin(tt, outcome) ==
    [tt EXCEPT !.log = Append(@, [origin_id |-> tt.origins[tt.i], outcome |-> outcome,
                                  total_tx |-> tt.total_tx, lost |-> tt.lost,
                                  queried |-> tt.queried]),
               !.i = @ + 1,
               !.pc = IF tt.i + 1 > Len(tt.origins) THEN "done" ELSE "prices",
               !.expected_prices = <<>>, !.total_tx = 0, !.total_vol = <<>>,
               !.all_buyers = {}, !.last_tx = <<>>, !.addresses = <<>>, !.j = 0,
               !.lost = {}, !.queried = {}]

\* the loop over the addresses of a network goes on, or the next step starts
NextAddress(tt, after) ==
    IF tt.j + 1 > Len(tt.addresses)
    THEN [tt EXCEPT !.pc = after, !.addresses = <<>>, !.j = 0]
    ELSE [tt EXCEPT !.j = @ + 1]

TractionFrame == UNCHANGED <<origins, resources, accepts, run, tagVars, pureVars, fetchVars, mainVars>>

HasUpdateAlways(total_tx) == TRUE

\* if total_tx > 0
HasUpdate(total_tx) == total_tx > 0

\* main() calls sync_traction_for_all_origins with a key set
TractionStart ==
    /\ traction.pc \in {"idle", "done"}
    /\ started < MaxRuns
    /\ started' = started + 1
    /\ \E alchemy, helius \in BOOLEAN :
          /\ alchemy \/ helius
          /\ traction' = [IdleTraction EXCEPT !.pc = "origins", !.alchemy = alchemy,
                                              !.helius = helius, !.now = started + 1]
    /\ UNCHANGED <<rollup, failures>>
    /\ TractionFrame

\* neither key is set: the reconciliation returns at once
TractionWithoutKeys ==
    /\ traction.pc \in {"idle", "done"}
    /\ started < MaxRuns
    /\ started' = started + 1
    /\ traction' = [IdleTraction EXCEPT !.pc = "done", !.now = started + 1]
    /\ UNCHANGED <<rollup, failures>>
    /\ TractionFrame

\* origins = select id, domain
SelectOrigins ==
    /\ traction.pc = "origins"
    /\ traction' = [traction EXCEPT !.origins = <<>> \o [id \in Ids(origins) |-> id],
                                    !.i = 1,
                                    !.pc = IF origins = <<>> THEN "done" ELSE "prices"]
    /\ UNCHANGED <<rollup, started, failures>>
    /\ TractionFrame

\* the select raises: the reconciliation returns
SelectOriginsFails ==
    /\ traction.pc = "origins"
    /\ Fails
    /\ traction' = [traction EXCEPT !.pc = "done"]
    /\ UNCHANGED <<rollup, started>>
    /\ TractionFrame

\* expected_prices = get_expected_prices(client, origin_id); an origin without
\* any is skipped
ExpectedPrices ==
    /\ traction.pc = "prices"
    /\ LET prices == get_expected_prices(OriginAtHand)
       IN  traction' = IF prices = <<>>
                       THEN NextOrigin([traction EXCEPT !.skipped_count = @ + 1], "no prices")
                       ELSE [traction EXCEPT !.expected_prices = prices, !.pc = "base"]
    /\ UNCHANGED <<rollup, started, failures>>
    /\ TractionFrame

\* the select of get_expected_prices raises: it returns []
ExpectedPricesFails ==
    /\ traction.pc = "prices"
    /\ Fails
    /\ traction' = NextOrigin([traction EXCEPT !.skipped_count = @ + 1], "no prices")
    /\ UNCHANGED <<rollup, started>>
    /\ TractionFrame

\* if ALCHEMY_API_KEY: the Base addresses of the origin
BaseAccepts ==
    /\ traction.pc = "base"
    /\ traction.alchemy
    /\ \E addresses \in PayeeLists(OriginAtHand, Net_base) :
          traction' = IF addresses = <<>>
                      THEN [traction EXCEPT !.pc = "solana"]
                      ELSE [traction EXCEPT !.pc = "base address", !.addresses = addresses, !.j = 1]
    /\ UNCHANGED <<rollup, started, failures>>
    /\ TractionFrame

\* ALCHEMY_API_KEY is not set
BaseWithoutKey ==
    /\ traction.pc = "base"
    /\ ~traction.alchemy
    /\ traction' = [traction EXCEPT !.pc = "solana"]
    /\ UNCHANGED <<rollup, started, failures>>
    /\ TractionFrame

\* the select of the Base accepts raises
BaseAcceptsFails ==
    /\ traction.pc = "base"
    /\ traction.alchemy
    /\ Fails
    /\ traction' = [traction EXCEPT !.pc = "solana", !.lost = @ \cup {<<Net_base>>}]
    /\ UNCHANGED <<rollup, started>>
    /\ TractionFrame

\* t = get_base_traction(addr, expected_prices) and its aggregation
BaseTraction ==
    /\ traction.pc = "base address"
    /\ LET addr == traction.addresses[traction.j]
           t == get_base_traction(traction.alchemy, addr, traction.expected_prices,
                                  AlchemyAnswer(addr))
       IN  traction' = NextAddress(Aggregate([traction EXCEPT !.queried = @ \cup {<<Net_base, addr>>}], t),
                                   "solana")
    /\ UNCHANGED <<rollup, started, failures>>
    /\ TractionFrame

\* the Alchemy call fails: get_base_traction returns zeros
BaseTractionFails ==
    /\ traction.pc = "base address"
    /\ Fails
    /\ LET addr == traction.addresses[traction.j]
           t == get_base_traction(traction.alchemy, addr, traction.expected_prices, AlchemyError)
       IN  traction' = NextAddress(Aggregate([traction EXCEPT !.queried = @ \cup {<<Net_base, addr>>},
                                                                !.lost = @ \cup {<<Net_base, addr>>}], t),
                                   "solana")
    /\ UNCHANGED <<rollup, started>>
    /\ TractionFrame

\* if HELIUS_API_KEY: the Solana addresses of the origin
SolanaAccepts ==
    /\ traction.pc = "solana"
    /\ traction.helius
    /\ \E addresses \in PayeeLists(OriginAtHand, Net_solana) :
          traction' = IF addresses = <<>>
                      THEN [traction EXCEPT !.pc = "update"]
                      ELSE [traction EXCEPT !.pc = "solana address", !.addresses = addresses, !.j = 1]
    /\ UNCHANGED <<rollup, started, failures>>
    /\ TractionFrame

\* HELIUS_API_KEY is not set
SolanaWithoutKey ==
    /\ traction.pc = "solana"
    /\ ~traction.helius
    /\ traction' = [traction EXCEPT !.pc = "update"]
    /\ UNCHANGED <<rollup, started, failures>>
    /\ TractionFrame

\* the select of the Solana accepts raises
SolanaAcceptsFails ==
    /\ traction.pc = "solana"
    /\ traction.helius
    /\ Fails
    /\ traction' = [traction EXCEPT !.pc = "update", !.lost = @ \cup {<<Net_solana>>}]
    /\ UNCHANGED <<rollup, started>>
    /\ TractionFrame

\* t = get_solana_traction(addr, expected_prices) and its aggregation
SolanaTraction ==
    /\ traction.pc = "solana address"
    /\ LET addr == traction.addresses[traction.j]
           t == get_solana_traction(traction.helius, addr, traction.expected_prices,
                                    HeliusAnswer(addr))
       IN  traction' = NextAddress(Aggregate([traction EXCEPT !.queried = @ \cup {<<Net_solana, addr>>}], t),
                                   "update")
    /\ UNCHANGED <<rollup, started, failures>>
    /\ TractionFrame

\* the Helius call fails: get_solana_traction returns zeros
SolanaTractionFails ==
    /\ traction.pc = "solana address"
    /\ Fails
    /\ LET addr == traction.addresses[traction.j]
           t == get_solana_traction(traction.helius, addr, traction.expected_prices, HeliusError)
       IN  traction' = NextAddress(Aggregate([traction EXCEPT !.queried = @ \cup {<<Net_solana, addr>>},
                                                                !.lost = @ \cup {<<Net_solana, addr>>}], t),
                                   "update")
    /\ UNCHANGED <<rollup, started>>
    /\ TractionFrame

\* if total_tx > 0: the origin's row takes the rollup
UpdateOrigin ==
    /\ traction.pc = "update"
    /\ HasUpdate(traction.total_tx)
    /\ rollup' = [rollup EXCEPT ![OriginAtHand] =
                     [total_transactions |-> traction.total_tx,
                      total_volume_usd |-> traction.total_vol,
                      unique_buyers |-> Cardinality(traction.all_buyers),
                      last_transaction_at |-> traction.last_tx,
                      traction_updated_at |-> traction.now]]
    /\ traction' = NextOrigin([traction EXCEPT !.updated_count = @ + 1], "updated")
    /\ UNCHANGED <<started, failures>>
    /\ TractionFrame

\* the update raises
UpdateOriginFails ==
    /\ traction.pc = "update"
    /\ HasUpdate(traction.total_tx)
    /\ Fails
    /\ traction' = NextOrigin(traction, "update failed")
    /\ UNCHANGED <<rollup, started>>
    /\ TractionFrame

\* else: skipped_count += 1
SkipOrigin ==
    /\ traction.pc = "update"
    /\ ~HasUpdate(traction.total_tx)
    /\ traction' = NextOrigin([traction EXCEPT !.skipped_count = @ + 1], "skipped")
    /\ UNCHANGED <<rollup, started, failures>>
    /\ TractionFrame

TractionInit ==
    /\ call = NoCall
    /\ ret = <<>>
    /\ catalog = <<>>
    /\ fac = 0
    /\ fpc = "idle"
    /\ offset = 0
    /\ retry = 0
    /\ all_items = <<>>
    /\ combined = <<>>
    /\ attempts = 0
    /\ last = NoResponse
    /\ upto = <<>>
    /\ \E store \in TractionStores :
          /\ origins = store.origins
          /\ resources = store.resources
          /\ accepts = store.accepts
          /\ rollup = [id \in Ids(store.origins) |-> NoRollup]
    /\ run = [r \in Runs |-> IdleRun]
    /\ started = 0
    /\ failures = 0
    /\ resource_tags = <<>>
    /\ backfill = IdleBackfill
    /\ traction = IdleTraction
    /\ main = <<>>
    /\ metadata = {}
    /\ sync_history = <<>>

TractionNext == \/ TractionStart
                \/ TractionWithoutKeys
                \/ SelectOrigins
                \/ SelectOriginsFails
                \/ ExpectedPrices
                \/ ExpectedPricesFails
                \/ BaseAccepts
                \/ BaseWithoutKey
                \/ BaseAcceptsFails
                \/ BaseTraction
                \/ BaseTractionFails
                \/ SolanaAccepts
                \/ SolanaWithoutKey
                \/ SolanaAcceptsFails
                \/ SolanaTraction
                \/ SolanaTractionFails
                \/ UpdateOrigin
                \/ UpdateOriginFails
                \/ SkipOrigin

SpecTraction == TractionInit /\ [][TractionNext]_vars

\* --------------------------------------------------------------- main()
Str_dot == <<".">>

\* special_tlds
special_tlds == {<<"c","o",".","u","k">>, <<"c","o","m",".","a","u">>, <<"c","o",".","n","z">>,
                 <<"c","o",".","j","p">>, <<"c","o","m",".","b","r">>}

\* s.split('.')[-n:] joined by '.': s from behind its n-th last dot on
LastParts(s, n) ==
    LET dots == {i \in 1..Len(s) : s[i] = "."}
        behind == {i \in dots : Cardinality({k \in dots : k >= i}) = n}
    IN  IF behind = {} THEN s ELSE SubSeq(s, (CHOOSE i \in behind : TRUE) + 1, Len(s))

get_root_domain_self(domain) == domain

\* get_root_domain(domain)
get_root_domain(domain) ==
    LET domain_lower == Lower(domain)
        matching == {tld \in special_tlds : EndsWith(domain_lower, Str_dot \o tld)}
    IN  IF domain = <<>>
        THEN domain
        ELSE IF matching # {}
             THEN LET tld == CHOOSE t \in matching : TRUE
                      prefix == SubSeq(domain_lower, 1, Len(domain_lower) - Len(tld) - 1)
                  IN  IF Contains(prefix, Str_dot)
                      THEN LastParts(prefix, 1) \o Str_dot \o tld
                      ELSE domain
             ELSE LastParts(domain, 2)

\* the columns scrape_origin_metadata fills, "" for None
MetadataFields == {"title", "description", "favicon", "og_image", "twitter", "discord", "github"}

NoMetadata == [f \in MetadataFields |-> ""]

\* what scrape_origin_metadata may return for a site: nothing (the request
\* failed or the page names nothing), or a title with a description and a
\* twitter handle
Scrapes == {NoMetadata,
            [NoMetadata EXCEPT !.title = "Svc API", !.description = "Paid API", !.twitter = "svc"]}

\* the scraped columns of the origins row of a domain
ColumnsOf(domain) ==
    IF \E e \in metadata : e.domain = domain
    THEN (CHOOSE e \in metadata : e.domain = domain).columns
    ELSE NoMetadata

update_origin_metadata_clearing(domain, scraped) ==
    {e \in metadata : e.domain # domain} \cup {[domain |-> domain, columns |-> scraped]}

\* update_origin_metadata(client, domain, metadata) when the update succeeds:
\* the non-empty scraped fields are written to the row of the domain
update_origin_metadata(domain, scraped) ==
    LET update_data == {f \in MetadataFields : scraped[f] # ""}
        columns == [f \in MetadataFields |->
                       IF f \in update_data THEN scraped[f] ELSE ColumnsOf(domain)[f]]
    IN  IF update_data = {}
        THEN metadata
        ELSE {e \in metadata : e.domain # domain} \cup {[domain |-> domain, columns |-> columns]}

\* the position of a run of main() outside upsert_to_supabase: pc is "idle",
\* "run" (from the fetch to the return of upsert_to_supabase, see run[r].pc),
\* "scraping" (at new_origins[i]), "history", "traction", "done" or "failed"
\* (an exception left main()); `store` tells whether SUPABASE_URL and
\* SUPABASE_SERVICE_KEY are set, `scraped` records what each scraped root
\* returned, `history` the calls of record_sync_history
IdleMain == [pc |-> "idle", store |-> FALSE, client |-> FALSE, i |-> 0, scraped_roots |-> {}, scraped |-> {},
             history |-> 0, history_failed |-> FALSE, reconciled |-> FALSE]

\* listings of two hosts with one root domain, and one without a date
M_sub == Listing(URL_sub, Date1, <<>>, Field(TRUE, <<Accept(Net_base, Amt_1000000)>>))

M_run == Listing(URL_run, Date1, <<>>, Field(TRUE, <<Accept(Net_base, Amt_1000000)>>))

M_undated == Listing(URL_run, NullDate, <<>>, Field(TRUE, <<Accept(Net_base, Amt_1000000)>>))

\* what fetch_all_discovery may return to main()
MainInputs == {<<>>, <<O_http>>, <<M_sub, M_run>>, <<M_run, M_undated>>}

\* main() has fetched from all facilitators; the locals of the runs before
\* are gone
MainStart(r) ==
    /\ r = started + 1
    /\ r \in Runs
    /\ \A q \in Runs : q < r => main[q].pc \in {"done", "failed"}
    /\ \E items \in MainInputs :
          run' = [q \in Runs |->
                     IF q = r
                     THEN [IdleRun EXCEPT !.pc = "dedupe", !.all_items = items]
                     ELSE [IdleRun EXCEPT !.pc = run[q].pc]]
    /\ \E store \in BOOLEAN :
          main' = [q \in Runs |->
                      IF q = r
                      THEN [IdleMain EXCEPT !.pc = "run", !.store = store]
                      ELSE [IdleMain EXCEPT !.pc = main[q].pc]]
    /\ started' = r
    /\ UNCHANGED <<origins, resources, accepts, failures, metadata, sync_history,
                   pureVars, fetchVars, tagVars, tractionVars>>

\* deduplicate_resources raises: nothing in main() catches it
DeduplicateRaises(r) ==
    /\ run[r].pc = "dedupe"
    /\ main[r].pc = "run"
    /\ DedupeRaises(run[r].all_items)
    /\ run' = [run EXCEPT ![r].pc = "failed"]
    /\ main' = [main EXCEPT ![r].pc = "failed"]
    /\ UNCHANGED <<origins, resources, accepts, started, failures, metadata, sync_history,
                   pureVars, fetchVars, tagVars, tractionVars>>

\* get_supabase_client() returns a client
WithClient(r) ==
    /\ run[r].pc = "snapshot"
    /\ main[r].pc = "run"
    /\ main[r].store
    /\ ~main[r].client
    /\ main' = [main EXCEPT ![r].client = TRUE]
    /\ UNCHANGED <<syncVars, metadata, sync_history, pureVars, fetchVars, tractionVars>>

\* get_supabase_client() returns None: the listings are saved to a local
\* file and main() prints its summary
WithoutClient(r) ==
    /\ run[r].pc = "snapshot"
    /\ main[r].pc = "run"
    /\ ~main[r].store
    /\ run' = [run EXCEPT ![r].pc = "done",
                          ![r].stats = [ZeroStats EXCEPT !.new_resources = Len(run[r].unique_items)]]
    /\ main' = [main EXCEPT ![r].pc = "done"]
    /\ UNCHANGED <<origins, resources, accepts, started, failures, metadata, sync_history,
                   pureVars, fetchVars, tagVars, tractionVars>>

\* a step of upsert_to_supabase in a run that has a client
Upserting(r) == main[r].pc = "run" /\ main[r].client

\* upsert_to_supabase returned (new_origins, stats)
UpsertReturned(r) ==
    /\ run[r].pc = "done"
    /\ main[r].pc = "run"
    /\ main' = [main EXCEPT ![r].pc = "scraping", ![r].i = 1]
    /\ UNCHANGED <<syncVars, metadata, sync_history, pureVars, fetchVars, tractionVars>>

\* `if new_origins:` is false
NoNewOrigins(r) ==
    /\ main[r].pc = "scraping"
    /\ run[r].new_origin_domains = <<>>
    /\ main' = [main EXCEPT ![r].pc = "history"]
    /\ UNCHANGED <<syncVars, metadata, sync_history, pureVars, fetchVars, tractionVars>>

\* the loop over new_origins goes on, or the scraping is finished
NextNewOrigin(m, new_origins) ==
    IF m.i + 1 > Len(new_origins) THEN [m EXCEPT !.pc = "history"] ELSE [m EXCEPT !.i = @ + 1]

NewOriginAtHand(r) ==
    /\ main[r].pc = "scraping"
    /\ main[r].i \in 1..Len(run[r].new_origin_domains)

\* the root domain of new_origins[i] is scraped
Scraped(m, root_domain, scraped) ==
    [m EXCEPT !.scraped_roots = @ \cup {root_domain},
              !.scraped = @ \cup {[root |-> root_domain, columns |-> scraped]}]

\* the root domain is scraped and what it returned is written to the origin
ScrapeOrigin(r) ==
    /\ NewOriginAtHand(r)
    /\ LET domain == run[r].new_origin_domains[main[r].i]
           root_domain == get_root_domain(domain)
       IN  /\ root_domain \notin main[r].scraped_roots
           /\ \E scraped \in Scrapes :
                 /\ metadata' = IF \E f \in MetadataFields : scraped[f] # ""
                                THEN update_origin_metadata(domain, scraped)
                                ELSE metadata
                 /\ main' = [main EXCEPT ![r] = NextNewOrigin(Scraped(@, root_domain, scraped),
                                                              run[r].new_origin_domains)]
    /\ UNCHANGED <<syncVars, sync_history, pureVars, fetchVars, tractionVars>>

\* the root domain is scraped and the update of the origin raises
ScrapeOriginUpdateFails(r) ==
    /\ NewOriginAtHand(r)
    /\ Fails
    /\ LET domain == run[r].new_origin_domains[main[r].i]
           root_domain == get_root_domain(domain)
       IN  /\ root_domain \notin main[r].scraped_roots
           /\ \E scraped \in Scrapes \ {NoMetadata} :
                 main' = [main EXCEPT ![r] = NextNewOrigin(Scraped(@, root_domain, scraped),
                                                           run[r].new_origin_domains)]
    /\ UNCHANGED <<origins, resources, accepts, run, started, tagVars, metadata, sync_history,
                   pureVars, fetchVars, tractionVars>>

\* `if root_domain in scraped_roots: continue`
ScrapeShared(r) ==
    /\ NewOriginAtHand(r)
    /\ get_root_domain(run[r].new_origin_domains[main[r].i]) \in main[r].scraped_roots
    /\ main' = [main EXCEPT ![r] = NextNewOrigin(@, run[r].new_origin_domains)]
    /\ UNCHANGED <<syncVars, metadata, sync_history, pureVars, fetchVars, tractionVars>>

RecordHistoryRaises(r) ==
    /\ main[r].pc = "history"
    /\ Fails
    /\ main' = [main EXCEPT ![r].pc = "failed", ![r].history = @ + 1, ![r].history_failed = TRUE]
    /\ UNCHANGED <<origins, resources, accepts, run, started, tagVars, metadata, sync_history,
                   pureVars, fetchVars, tractionVars>>

\* record_sync_history: the insert raises, which is printed
RecordHistoryFails(r) ==
    /\ main[r].pc = "history"
    /\ Fails
    /\ main' = [main EXCEPT ![r].pc = "traction", ![r].history = @ + 1, ![r].history_failed = TRUE]
    /\ UNCHANGED <<origins, resources, accepts, run, started, tagVars, metadata, sync_history,
                   pureVars, fetchVars, tractionVars>>

\* record_sync_history: a row with the run's counters is inserted
RecordHistory(r) ==
    /\ main[r].pc = "history"
    /\ sync_history' = Append(sync_history, [started_at |-> r, stats |-> run[r].stats])
    /\ main' = [main EXCEPT ![r].pc = "traction", ![r].history = @ + 1]
    /\ UNCHANGED <<syncVars, metadata, pureVars, fetchVars, tractionVars>>

\* `if ALCHEMY_API_KEY or HELIUS_API_KEY`: sync_traction_for_all_origins is
\* called and returns; no accept of the listings of MainInputs has a payTo, so
\* every origin is without an address to query and none is updated
ReconcileTraction(r) ==
    /\ main[r].pc = "traction"
    /\ main' = [main EXCEPT ![r].pc = "done", ![r].reconciled = TRUE]
    /\ UNCHANGED <<syncVars, metadata, sync_history, pureVars, fetchVars, tractionVars>>

\* neither key is set: main() prints its summary
WithoutKeys(r) ==
    /\ main[r].pc = "traction"
    /\ main' = [main EXCEPT ![r].pc = "done"]
    /\ UNCHANGED <<syncVars, metadata, sync_history, pureVars, fetchVars, tractionVars>>

MainInit ==
    /\ call = NoCall
    /\ ret = <<>>
    /\ catalog = <<>>
    /\ fac = 0
    /\ fpc = "idle"
    /\ offset = 0
    /\ retry = 0
    /\ all_items = <<>>
    /\ combined = <<>>
    /\ attempts = 0
    /\ last = NoResponse
    /\ upto = <<>>
    /\ origins = <<>>
    /\ resources = <<>>
    /\ accepts = <<>>
    /\ run = [r \in Runs |-> IdleRun]
    /\ started = 0
    /\ failures = 0
    /\ resource_tags = <<>>
    /\ backfill = IdleBackfill
    /\ rollup = <<>>
    /\ traction = IdleTraction
    /\ main = [r \in Runs |-> IdleMain]
    /\ metadata = {}
    /\ sync_history = <<>>

MainNext ==
    \E r \in Runs :
        \/ MainStart(r)
        \/ DeduplicateRaises(r)
        \/ WithClient(r)
        \/ WithoutClient(r)
        \/ UpsertReturned(r)
        \/ NoNewOrigins(r)
        \/ ScrapeOrigin(r)
        \/ ScrapeOriginUpdateFails(r)
        \/ ScrapeShared(r)
        \/ RecordHistory(r)
        \/ RecordHistoryFails(r)
        \/ ReconcileTraction(r)
        \/ WithoutKeys(r)
        \/ Deduplicate(r)
        \/ (Upserting(r) /\ Snapshot(r))
        \/ (Upserting(r) /\ SnapshotFails(r))
        \/ TagMap(r)
        \/ TagMapFails(r)
        \/ OriginCached(r)
        \/ OriginUpsert(r)
        \/ OriginConflict(r)
        \/ OriginUpsertFails(r)
        \/ OriginFallback(r)
        \/ OriginMissing(r)
        \/ ResourceUpsert(r)
        \/ ResourceUpsertFails(r)
        \/ AcceptUpsert(r)
        \/ AcceptUpsertFails(r)
        \/ TagUpsert(r)
        \/ TagUpsertFails(r)
        \/ TagUnknown(r)

SpecMain == MainInit /\ [][MainNext]_vars

\* main() goes on after record_sync_history has returned
AfterHistory == \E r \in Runs : ReconcileTraction(r) \/ WithoutKeys(r)

SpecMainFair == SpecMain /\ WF_vars(AfterHistory)

\* ================================================================ claims
Range(seq) == {seq[i] : i \in 1..Len(seq)}

\* the listings a raw page should hand downstream: not hosted, with the
\* mainnet accepts only, and at least one of them
Downstream(raw) ==
    LET ok(item) == /\ item.wellformed
                    /\ ~(item.resource # <<>> /\ is_hosting_domain(urlparse(item.resource).netloc))
                    /\ item.accepts.present
                    /\ \E i \in 1..Len(item.accepts.val) : ~is_testnet(item.accepts.val[i].network)
        good == SelectSeq(raw, ok)
    IN  [i \in 1..Len(good) |->
            [good[i] EXCEPT !.accepts = Field(TRUE, SelectSeq(good[i].accepts.val,
                                                   LAMBDA a : ~is_testnet(a.network)))]]

\* the listings of facilitator f's completely processed pages
Expected(f) == Downstream(SubSeq(catalog[f], 1, upto[f]))

\* C1: a page that keeps answering HTTP 429 is attempted at most max_retries
\* times, after which fetch_with_pagination returns what it accumulated.
C1_RetriesBounded ==
    last.streak >= max_retries => fpc = "returned"

C3_Pagination ==
    /\ offset % Limit = 0
    /\ last.outcome = "none" => offset = 0
    /\ (last.outcome = "ok" /\ last.raw < Limit) =>
           fpc = "returned" /\ offset = last.offset
    /\ (last.outcome = "ok" /\ last.raw >= Limit) =>
           fpc = "request" /\ offset = last.offset + Limit /\ attempts = 0
    /\ last.outcome \in {"429", "http", "error", "raised"} => offset = last.offset

C3_Witness ==
    /\ last.outcome = "ok"
    /\ last.offset = Limit
    /\ offset = 2 * Limit
    /\ fpc = "request"
    /\ Downstream(ServedPage(fac, Limit)) = <<>>
    /\ all_items # <<>>

\* C4: a body carrying a listing sequence as a plain array, as `items`, as
\* `resources` or as `data.items` yields that sequence, also when another of
\* these fields is present but empty.
Carried(body) ==
    IF body.kind = "list"
    THEN {body.list}
    ELSE IF body.kind = "dict"
         THEN {f.val : f \in {g \in {body.items, body.resources,
                                      IF body.data.present /\ body.data.isdict
                                      THEN body.data.items ELSE NoField} : g.present}}
         ELSE {}

C4_SameSequence ==
    call.fn = "extract" =>
        \A seq \in Carried(call.arg) :
            (seq # <<>> /\ Carried(call.arg) \subseteq {seq, <<>>}) => ret = seq

\* C5: is_hosting_domain(host) is true exactly when host ends with an entry of
\* the hosting suffix list; an entry in the middle, or an empty host, does not
\* make a hosting domain.
C5_SuffixOnly ==
    call.fn = "is_hosting_domain" =>
        (ret <=> \E host \in HOSTING_DOMAINS : EndsWith(Lower(call.arg), host))

\* C6: every listing handed downstream has at least one accept and no accept
\* whose lowered network name contains a testnet pattern; the accepts on
\* "base", "solana" and "polygon" of a listing handed downstream are all kept.
C6_MainnetOnly ==
    /\ \A item \in Range(all_items) \cup Range(combined) :
          /\ item.accepts.present
          /\ Len(item.accepts.val) >= 1
          /\ \A a \in Range(item.accepts.val) :
                ~\E pattern \in TESTNET_PATTERNS : Contains(Lower(a.network), pattern)
    /\ \A f \in 1..Len(catalog) : \A i \in 1..upto[f] :
          LET raw == catalog[f][i]
          IN  (raw.wellformed /\ raw.accepts.present) =>
                  \A a \in Range(raw.accepts.val) :
                      (a.network \in Mainnets /\ ~is_hosting_domain(urlparse(raw.resource).netloc)) =>
                          \E item \in Range(all_items) \cup Range(combined) :
                              /\ item.resource = raw.resource
                              /\ item.lastUpdated = raw.lastUpdated
                              /\ a \in Range(item.accepts.val)

C6_Witness ==
    \E item \in Range(combined) :
        /\ item.resource = URL_v1
        /\ item.accepts.val = <<Accept(Net_solana, Amt_1500000)>>

Reports(all, u) == {i \in 1..Len(all) : all[i].resource = u}

\* among them, the first whose lastUpdated none of them exceeds
Greatest(all, u) ==
    CHOOSE i \in Reports(all, u) :
        /\ \A j \in Reports(all, u) : ~StrGreater(all[j].lastUpdated, all[i].lastUpdated)
        /\ \A j \in Reports(all, u) : j < i => StrGreater(all[i].lastUpdated, all[j].lastUpdated)

C9_OwnOrigin ==
    \A id \in Ids(resources) :
        /\ resources[id].origin_id \in Ids(origins)
        /\ origins[resources[id].origin_id].origin = OriginOf(resources[id].resource).origin

\* C10: every stored accept's price_usd is int(max_amount_required) / 1,000,000
\* when max_amount_required parses as an integer ("1000000" gives 1.0,
\* "1500000" gives 1.5) and is unset when it does not.
C10_PriceOfAmount ==
    \A id \in Ids(accepts) :
        LET row == accepts[id]
            amount == ParseInt(row.max_amount_required)
        IN  /\ amount.ok => row.price_usd = [present |-> TRUE, val |-> PriceUsd(amount.val)]
            /\ ~amount.ok => ~row.price_usd.present
            /\ row.max_amount_required = Amt_1000000 =>
                   row.price_usd.val = [units |-> 1, micros |-> 0]
            /\ row.max_amount_required = Amt_1500000 =>
                   row.price_usd.val = [units |-> 1, micros |-> 500000]

\* the categories of the keyword table
Categories == {TAG_KEYWORDS[i].name : i \in 1..Len(TAG_KEYWORDS)}

\* the categories with at least one keyword in the lowercased text
Matching(url, description) ==
    {c \in Categories : \E i \in 1..Len(TAG_KEYWORDS) :
        /\ TAG_KEYWORDS[i].name = c
        /\ \E kw \in TAG_KEYWORDS[i].keywords : Contains(Lower(url \o <<" ">> \o description), kw)}

\* C16: detect_tags returns exactly the categories with a keyword in the
\* lowercased URL-plus-description text, each once, and exactly ["other"] if
\* and only if no category matches; the swap example includes trading and
\* https://example.com/foo with no description gives ["other"].
C16_DetectTags ==
    call.fn = "detect_tags" =>
        LET matching == Matching(call.arg.url, call.arg.description)
        IN  /\ ret # <<>>
            /\ \A i, j \in 1..Len(ret) : ret[i] = ret[j] => i = j
            /\ matching # {} => Range(ret) = matching
            /\ matching = {} <=> ret = <<"other">>
            /\ "other" \in Range(ret) => Len(ret) = 1
            /\ (call.arg.url = URL_swap /\ call.arg.description = Desc_swap)
                  => "trading" \in Range(ret)
            /\ (call.arg.url = URL_foo /\ call.arg.description = <<>>)
                  => ret = <<"other">>

C16_Witness ==
    /\ call.fn = "detect_tags"
    /\ call.arg.url = URL_NFT
    /\ call.arg.description = Desc_chat
    /\ {"nft", "llm_inference", "ai_agent"} \subseteq Range(ret)

\* C11: after any sequence of sync runs, sequential or overlapping, the store
\* holds at most one origin per domain, one resource per URL, one accept per
\* (resource_id, scheme, network) and one resource_tag per (resource_id, tag_id).
C11_Unique ==
    /\ \A a, b \in Ids(origins) : origins[a].domain = origins[b].domain => a = b
    /\ \A a, b \in Ids(resources) : resources[a].resource = resources[b].resource => a = b
    /\ \A a, b \in Ids(accepts) :
          (/\ accepts[a].resource_id = accepts[b].resource_id
           /\ accepts[a].scheme = accepts[b].scheme
           /\ accepts[a].network = accepts[b].network) => a = b
    /\ \A a, b \in Ids(resource_tags) : resource_tags[a] = resource_tags[b] => a = b

C11_Witness ==
    /\ \A r \in {1, 2} : run[r].unique_items = <<O_https>> /\ run[r].snapshot = {}
    /\ run[1].pc = "done"
    /\ run[2].pc = "tag"
    /\ Len(origins) = 1
    /\ Len(resources) = 1
    /\ Len(accepts) = 1
    /\ Len(resource_tags) = 1

\* the runs that have finished
Done == {r \in Runs : run[r].pc = "done"}

\* C12: when two overlapping runs both process listings under a domain that
\* neither found in its origin snapshot, both end with the same origin id for
\* the domain, exactly one origin row exists for it, and neither run skips its
\* resource or counts an error because of the conflict.
C12_RaceSafe ==
    failures = 0 =>
        /\ \A r \in Done :
              /\ run[r].stats.errors = 0
              /\ \A i \in 1..Len(run[r].unique_items) :
                    ResourceRow(run[r].unique_items[i].resource) # 0
              /\ \A e \in run[r].existing_origins :
                    Cardinality({id \in Ids(origins) : origins[id].domain = e[1]}) = 1
        /\ \A r, q \in Done :
              \A e \in run[r].existing_origins, f \in run[q].existing_origins :
                  e[1] = f[1] => e[2] = f[2]

C12_Witness ==
    /\ failures = 0
    /\ Done = {1, 2}
    /\ run[1].snapshot = {} /\ run[2].snapshot = {}
    /\ run[1].unique_items = <<O_https>> /\ run[2].unique_items = <<O_http>>
    /\ run[1].existing_origins = run[2].existing_origins
    /\ Len(origins) = 1
    /\ Len(resources) = 2

\* C13: applying upsert_to_supabase twice in succession to the same
\* deduplicated listing set, with no other writer and no failing store call,
\* leaves origins, resources, accepts and resource_tags and their
\* facilitator-derived field values as they were after the first application.
C13_Idempotent ==
    failures = 0 =>
        \A r \in Runs :
            (/\ r > 1
             /\ started = r
             /\ run[r].pc = "done"
             /\ run[r - 1].pc = "done"
             /\ run[r].unique_items = run[r - 1].unique_items) => StoreFacts = run[r].before

C13_Witness ==
    /\ failures = 0
    /\ run[1].pc = "done" /\ run[2].pc = "done"
    /\ run[1].all_items = <<S_run_old, S_run_new>>
    /\ run[2].all_items = <<S_run_new, S_run_old>>
    /\ run[2].before.resources # <<>>
    /\ StoreFacts = run[2].before

\* C14: a failure of a sub-step of a listing (resource upsert, accept upsert,
\* tag-association upsert) increments the errors counter and leaves the
\* remaining listings to be processed.
C14_FailuresCounted ==
    [][\A r \in Runs :
          (/\ run[r].pc \in {"resource", "accept", "tag"}
           /\ run'[r] # run[r]
           /\ failures' = failures + 1)
          => /\ run'[r].stats.errors = run[r].stats.errors + 1
             /\ run'[r].unique_items = run[r].unique_items
             /\ run'[r].pc = "done" => run[r].i = Len(run[r].unique_items)]_vars

\* the tags associated with a resource
TagsIn(table, resource_id) ==
    {table[i].tag_id : i \in {j \in Ids(table) : table[j].resource_id = resource_id}}

\* C15: across sync runs and backfill_tags runs the set of tags associated
\* with a resource never loses a member, also when the resource's text
\* changes so that a category matched before no longer matches.
C15_TagsOnlyGrow ==
    [][\A id \in Ids(resources) :
          TagsIn(resource_tags, id) \subseteq TagsIn(resource_tags', id)]_vars

C15_Witness ==
    /\ run[1].pc = "done" /\ run[2].pc = "done"
    /\ \E id \in Ids(resources) :
          /\ resources[id].description = Desc_b
          /\ "trading" \in TagsIn(resource_tags, id)
          /\ "trading" \notin Range(detect_tags(resources[id].resource, resources[id].description))
          /\ Range(detect_tags(resources[id].resource, resources[id].description))
                 \subseteq TagsIn(resource_tags, id)

\* C17: is_valid_x402_transfer(amount, prices) is true if and only if some
\* price p > 0 of prices has 0.9*p <= amount <= 1.1*p, both boundary amounts
\* accepted; for the price 2.00 a transfer of 2.10 is accepted and one of 2.30
\* is rejected.
C17_Tolerance ==
    call.fn = "is_valid_x402_transfer" =>
        (ret <=> \E i \in 1..Len(call.arg.prices) :
                    LET p == call.arg.prices[i]
                    IN  /\ p > 0
                        /\ 9 * p <= 10 * call.arg.amount
                        /\ 10 * call.arg.amount <= 11 * p)

\* C18: across reconciliation runs an origin's stored rollup never regresses:
\* its total_transactions after a run is never lower than before, also when a
\* provider call for one of its payee addresses fails in the later run.
C18_NeverRegresses ==
    [][\A id \in DOMAIN rollup :
          rollup'[id].total_transactions >= rollup[id].total_transactions]_vars

\* C19: reconciling an origin leaves all of its rollup fields unchanged when
\* its expected prices are empty or the aggregate count is zero, and with no
\* expected prices no provider is queried for it.
C19_SkipLeavesRollup ==
    [][Len(traction'.log) = Len(traction.log) + 1 =>
          LET e == traction'.log[Len(traction'.log)]
          IN  (e.outcome = "no prices" \/ e.total_tx = 0) =>
                  /\ rollup' = rollup
                  /\ e.outcome = "no prices" => e.queried = {}]_vars

C19_Witness ==
    /\ traction.now = 2
    /\ \E k \in DOMAIN traction.log :
          /\ traction.log[k].outcome \in {"no prices", "skipped"}
          /\ rollup[traction.log[k].origin_id].total_transactions > 0
          /\ rollup[traction.log[k].origin_id].traction_updated_at = 1

RECURSIVE Total(_, _)
Total(count, S) ==
    IF S = {} THEN 0
    ELSE LET x == CHOOSE x \in S : TRUE
         IN  count[x] + Total(count, S \ {x})

\* the payee addresses of an origin on a network
Payees(origin_id, network) ==
    {a.pay_to : a \in {a \in Range(accepts) : /\ resources[a.resource_id].origin_id = origin_id
                                              /\ a.network = network
                                              /\ a.pay_to # ""}}

\* the transfers to an address that match the origin's expected prices
MatchingBase(origin_id, address) ==
    Cardinality({i \in DOMAIN AlchemyTransfers(address) :
                    Matches(AlchemyTransfers(address)[i].value, get_expected_prices(origin_id))})

MatchingSolana(origin_id, address) ==
    LET txs == HeliusTransactions(address)
    IN  Cardinality({ik \in UNION {{<<i, k>> : k \in DOMAIN txs[i].tokenTransfers} : i \in DOMAIN txs} :
                        LET transfer == txs[ik[1]].tokenTransfers[ik[2]]
                        IN  /\ transfer.mint = USDC_solana
                            /\ transfer.toUserAccount = address
                            /\ Matches(transfer.tokenAmount, get_expected_prices(origin_id))})

\* the matching transfers of an origin, without those of the networks and
\* addresses in `lost` and of the networks without a key
Covered(origin_id, lost) ==
    LET base == IF traction.alchemy /\ <<Net_base>> \notin lost
                THEN {p \in Payees(origin_id, Net_base) : <<Net_base, p>> \notin lost}
                ELSE {}
        solana == IF traction.helius /\ <<Net_solana>> \notin lost
                  THEN {p \in Payees(origin_id, Net_solana) : <<Net_solana, p>> \notin lost}
                  ELSE {}
    IN  Total([p \in base |-> MatchingBase(origin_id, p)], base)
            + Total([p \in solana |-> MatchingSolana(origin_id, p)], solana)

\* C20: a failed provider call for one address, a failed accept lookup for one
\* network or a missing key for one network only removes that address's or
\* network's transfers from the aggregate: the matching transfers of the other
\* addresses and networks are aggregated and written, and every later origin
\* is reconciled.
C20_FailuresIsolated ==
    /\ \A k \in DOMAIN traction.log :
          LET e == traction.log[k]
          IN  /\ e.origin_id = traction.origins[k]
              /\ e.outcome # "no prices" =>
                    /\ e.total_tx = Covered(e.origin_id, e.lost)
                    /\ e.total_tx > 0 => e.outcome \in {"updated", "update failed"}
                    /\ e.outcome = "updated" =>
                          rollup[e.origin_id].total_transactions = e.total_tx
    /\ traction.pc = "done" => Len(traction.log) = Len(traction.origins)

C20_Witness ==
    /\ traction.pc = "done"
    /\ Len(traction.log) = 2
    /\ \E l \in traction.log[1].lost : Len(l) = 2
    /\ traction.log[1].outcome = "updated"
    /\ traction.log[1].total_tx > 0
    /\ traction.log[2].outcome = "updated"

\* 0.9 * p <= amount <= 1.1 * p for a price p > 0, both in millionths
Tolerated(amount, prices) ==
    \E i \in 1..Len(prices) :
        /\ prices[i] > 0
        /\ 9 * prices[i] <= 10 * amount
        /\ 10 * amount <= 11 * prices[i]

\* the second of the minute a stored timestamp names, -1 for none
SecondOf(stamp) == IF stamp = <<>> THEN -1 ELSE DecimalValue(SubSeq(stamp, 18, 19), 1, 0)

\* the incoming USDC transfers of an origin that match its prices: every
\* transfer of every distinct payee address of every network, once
MatchingTransfers(origin_id) ==
    LET prices == get_expected_prices(origin_id)
        base == {[network |-> Net_base, to |-> p, n |-> <<i>>,
                  from |-> AlchemyTransfers(p)[i].from,
                  second |-> SecondOf(AlchemyTransfers(p)[i].blockTimestamp)] :
                    <<p, i>> \in {pi \in Payees(origin_id, Net_base) \X (1..2) :
                                     /\ pi[2] \in DOMAIN AlchemyTransfers(pi[1])
                                     /\ Tolerated(AlchemyTransfers(pi[1])[pi[2]].value, prices)}}
        solana == {[network |-> Net_solana, to |-> p, n |-> <<i, k>>,
                    from |-> HeliusTransactions(p)[i].tokenTransfers[k].fromUserAccount,
                    second |-> HeliusTransactions(p)[i].timestamp - Epoch_2024] :
                      <<p, i, k>> \in {pik \in Payees(origin_id, Net_solana) \X (1..2) \X (1..2) :
                                          /\ pik[2] \in DOMAIN HeliusTransactions(pik[1])
                                          /\ pik[3] \in DOMAIN HeliusTransactions(pik[1])[pik[2]].tokenTransfers
                                          /\ LET transfer == HeliusTransactions(pik[1])[pik[2]].tokenTransfers[pik[3]]
                                             IN  /\ transfer.mint = USDC_solana
                                                 /\ transfer.toUserAccount = pik[1]
                                                 /\ Tolerated(transfer.tokenAmount, prices)}}
    IN  base \cup solana

\* C21: a written rollup has total_transactions = the number of matching
\* incoming transfers over the origin's distinct payee addresses on all
\* networks, unique_buyers = the number of distinct senders among them and
\* last_transaction_at = the latest timestamp among them; stated for the
\* reconciliations in which both keys are set and no lookup or call failed.
C21_RollupExact ==
    [][\A id \in DOMAIN rollup :
          (/\ rollup'[id] # rollup[id]
           /\ traction.alchemy /\ traction.helius
           /\ traction.lost = {})
          => LET matching == MatchingTransfers(id)
             IN  /\ rollup'[id].total_transactions = Cardinality(matching)
                 /\ rollup'[id].unique_buyers = Cardinality({t.from : t \in matching} \ {""})
                 /\ \A t \in matching : t.second <= SecondOf(rollup'[id].last_transaction_at)
                 /\ \E t \in matching : t.second = SecondOf(rollup'[id].last_transaction_at)]_vars

\* C25: when the resource upsert of a listing changes a stored row, every
\* column of the row afterwards is the one derived from the listing alone,
\* whatever was stored before; a listing without a description leaves no
\* description behind.
C25_FullReplace ==
    [][\A r \in Runs : \A id \in Ids(resources) :
          (run[r].pc = "resource" /\ resources'[id] # resources[id])
          => resources'[id] = ResourceData(Item(r), run[r].origin_id)]_vars

\* C26: within a run of upsert_to_supabase a domain is appended to the
\* new-origin list, and counted in new_origins, only by the origin upsert and
\* only when the row it returned has created_at = updated_at; a domain is
\* appended at most once, never when it was in the snapshot of the origins
\* taken at the start and never by the fallback lookup.
C26_NewOnlyOnInsert ==
    [][\A r \in Runs :
          (run'[r].pc # "dedupe" /\ (\/ run'[r].new_origin_domains # run[r].new_origin_domains
                                     \/ run'[r].stats.new_origins # run[r].stats.new_origins))
          => LET domain == OriginOf(Item(r).resource).domain
             IN  /\ run[r].pc = "item"
                 /\ run'[r].new_origin_domains = Append(run[r].new_origin_domains, domain)
                 /\ run'[r].stats.new_origins = run[r].stats.new_origins + 1
                 /\ origins'[run'[r].origin_id].fresh
                 /\ origins'[run'[r].origin_id].domain = domain
                 /\ \A n \in 1..Len(run[r].new_origin_domains) : run[r].new_origin_domains[n] # domain
                 /\ \A e \in run[r].snapshot : e[1] # domain]_vars

\* a second run has met a stored domain, through the snapshot or, the
\* snapshot having failed, through the upsert, after the first run created it
C26_Witness ==
    /\ Len(run[1].new_origin_domains) = 1
    /\ run[1].stats.new_origins = 1
    /\ run[2].pc = "done"
    /\ run[2].snapshot = {}
    /\ run[2].stats.updated_origins > 0
    /\ run[2].new_origin_domains = <<>>

\* the listings a run was handed that have no resource URL
WithoutUrl(r) == {n \in 1..Len(run[r].all_items) : run[r].all_items[n].resource = <<>>}

\* C27: a listing with a missing or empty resource URL creates no origin,
\* resource or accept row, and the errors counter of the finished run counts it.
C27_NoUrlCounted ==
    \A r \in Runs :
        run[r].pc = "done"
        => /\ \A id \in Ids(resources) : resources[id].resource # <<>>
           /\ \A id \in Ids(origins) : origins[id].domain # <<>>
           /\ run[r].stats.errors >= Cardinality(WithoutUrl(r))

\* the listings of a finished run whose resource URL was, or was not, stored
\* when the run started
StoredBefore(r) ==
    {n \in 1..Len(run[r].unique_items) :
        \E id \in Ids(run[r].before.resources) :
            run[r].before.resources[id].resource = run[r].unique_items[n].resource}

\* C28: in the counters of a run in which no store call failed,
\* new_resources is the number of listings whose resource URL was not stored
\* before the run and updated_resources the number of those whose URL was.
C28_ResourceCounters ==
    \A r \in Runs :
        (run[r].pc = "done" /\ failures = 0)
        => /\ run[r].stats.updated_resources = Cardinality(StoredBefore(r))
           /\ run[r].stats.new_resources = Len(run[r].unique_items) - Cardinality(StoredBefore(r))

\* C29: what fetch_with_pagination returns is the accepted listings of the
\* completely processed pages, each once and in order, followed by at most
\* one copy of accepted listings of the page that was being processed, also
\* when attempts of that page raised after appending and it was retried.
C29_EachListingOnce ==
    fpc = "returned"
    => LET page == Downstream(ServedPage(fac, upto[fac]))
       IN  \E n \in 0..Len(page) : all_items = Expected(fac) \o SubSeq(page, 1, n)

\* C22: a run of main() that has a store client and is completed has called
\* record_sync_history exactly once; when its insert raises, the run goes on
\* to the traction reconciliation and is completed.
C22_HistoryFailureSwallowed ==
    /\ [](\A r \in Runs : (main[r].client /\ main[r].pc = "done") => main[r].history = 1)
    /\ [][\A r \in Runs : (~main[r].history_failed /\ main'[r].history_failed)
                             => main'[r].pc = "traction"]_vars
    /\ \A r \in Runs : main[r].history_failed ~> main[r].pc = "done"

\* the insert raised, nothing was recorded, and the run was completed after
\* calling the reconciliation
C22_Witness ==
    /\ main[1].client
    /\ main[1].pc = "done"
    /\ main[1].history_failed
    /\ main[1].reconciled
    /\ sync_history = <<>>
    /\ Len(resources) > 0

\* the stage a run of main() is in
Stage(r) ==
    CASE main[r].pc = "idle" -> "Fetching"
      [] main[r].pc = "run" -> IF run[r].pc = "dedupe" THEN "Deduplicating" ELSE "Upserting"
      [] main[r].pc = "scraping" -> "ScrapingNewOrigins"
      [] main[r].pc = "history" -> "RecordingHistory"
      [] main[r].pc = "traction" -> "ReconcilingTraction"
      [] main[r].pc = "done" -> "Done"
      [] main[r].pc = "failed" -> "Failed"

StageOrder == <<"Fetching", "Deduplicating", "Upserting", "ScrapingNewOrigins",
                "RecordingHistory", "ReconcilingTraction", "Done">>

\* C23: a run of main() for which a store is configured leaves a stage only
\* for the next one of Fetching, Deduplicating, Upserting, ScrapingNewOrigins,
\* RecordingHistory, ReconcilingTraction, Done: no stage is skipped and no
\* failure inside a stage ends the run as failed.
C23_StagesInOrder ==
    [][\A r \in Runs :
          (main'[r].store /\ Stage(r)' # Stage(r))
          => \E n \in 1..(Len(StageOrder) - 1) :
                Stage(r) = StageOrder[n] /\ Stage(r)' = StageOrder[n + 1]]_vars

\* C24: a stage begins only when the stage before it has consumed its whole
\* input; a tag association is written only when the run has finished
\* scraping its newly created origins.
C24_TagsAfterScraping ==
    [][resource_tags' # resource_tags
          => \A r \in Runs : main[r].pc \notin {"run", "scraping"}]_vars

\* C30: when a run has finished scraping and no store call failed, every
\* origin it classified as new holds the non-empty fields the scrape of its
\* root domain returned, also when it shares the root domain with an earlier
\* new origin of the run; and no update clears a field an origin holds.
C30_ScrapedFieldsWritten ==
    /\ [](\A r \in Runs :
            (main[r].pc = "history" /\ failures = 0)
            => \A n \in 1..Len(run[r].new_origin_domains) : \A e \in main[r].scraped :
                  LET domain == run[r].new_origin_domains[n]
                  IN  e.root = get_root_domain(domain)
                      => \A f \in MetadataFields :
                            e.columns[f] # "" => ColumnsOf(domain)[f] = e.columns[f])
    /\ [][\A e \in metadata : \A f \in MetadataFields :
             e.columns[f] # "" => ColumnsOf(e.domain)'[f] # ""]_vars

====
